---------------------------- MODULE Spec2Model ----------------------------
(***************************************************************************)
(* A model of the CannaVille texture service (src/ai-texture-generator.py) *)
(* as a state machine:                                                     *)
(*                                                                         *)
(*   - HyperRealisticTextureGenerator.generate_texture and the stages it   *)
(*     calls, one action per stage, for calls that arrive directly or      *)
(*     through the /api/generate-texture endpoint, in one or more          *)
(*     processes and threads;                                              *)
(*   - make_seamless on concrete pixel arrays, one action per iteration    *)
(*     of its loop.                                                        *)
(***************************************************************************)
EXTENDS Integers, Sequences, FiniteSets, TLC

(* Texts are sequences of one-character strings, so that str.lower() and the
   substring test `in` are computed character by character. *)

(* Archetype keywords tested by create_procedural_texture. *)
KwCannabis ==
    << "c","a","n","n","a","b","i","s" >>
KwBud ==
    << "b","u","d" >>
KwSkin ==
    << "s","k","i","n" >>
KwAvatar ==
    << "a","v","a","t","a","r" >>
KwSoil ==
    << "s","o","i","l" >>
KwEarth ==
    << "e","a","r","t","h" >>
KwWood ==
    << "w","o","o","d" >>

(* style_modifiers of enhance_prompt. *)
ModPhotorealistic ==
    << "p","h","o","t","o","r","e","a","l","i","s","t","i","c",","," ",
       "h","y","p","e","r","-","d","e","t","a","i","l","e","d",","," ",
       "8","K"," ","r","e","s","o","l","u","t","i","o","n",","," ","p",
       "r","o","f","e","s","s","i","o","n","a","l"," ","p","h","o","t",
       "o","g","r","a","p","h","y",","," ","s","t","u","d","i","o"," ",
       "l","i","g","h","t","i","n","g" >>
ModArtistic ==
    << "a","r","t","i","s","t","i","c"," ","i","n","t","e","r","p","r",
       "e","t","a","t","i","o","n",","," ","s","t","y","l","i","z","e",
       "d",","," ","c","r","e","a","t","i","v","e"," ","l","i","g","h",
       "t","i","n","g",","," ","a","r","t","i","s","t","i","c"," ","c",
       "o","m","p","o","s","i","t","i","o","n" >>
ModCartoon ==
    << "c","a","r","t","o","o","n"," ","s","t","y","l","e",","," ","s",
       "t","y","l","i","z","e","d",","," ","v","i","b","r","a","n","t",
       " ","c","o","l","o","r","s",","," ","s","i","m","p","l","i","f",
       "i","e","d"," ","d","e","t","a","i","l","s" >>
ModAbstract ==
    << "a","b","s","t","r","a","c","t"," ","i","n","t","e","r","p","r",
       "e","t","a","t","i","o","n",","," ","a","r","t","i","s","t","i",
       "c"," ","p","a","t","t","e","r","n","s",","," ","c","r","e","a",
       "t","i","v","e"," ","d","e","s","i","g","n" >>

(* category_modifiers of enhance_prompt. *)
ModCannabis ==
    << "c","a","n","n","a","b","i","s"," ","c","u","l","t","i","v","a",
       "t","i","o","n",","," ","p","r","o","f","e","s","s","i","o","n",
       "a","l"," ","g","r","o","w","i","n","g",","," ","h","i","g","h",
       "-","q","u","a","l","i","t","y"," ","g","e","n","e","t","i","c",
       "s" >>
ModAvatar ==
    << "h","u","m","a","n"," ","s","k","i","n"," ","t","e","x","t","u",
       "r","e",","," ","p","o","r","t","r","a","i","t"," ","p","h","o",
       "t","o","g","r","a","p","h","y",","," ","p","r","o","f","e","s",
       "s","i","o","n","a","l"," ","m","a","k","e","u","p" >>
ModEnvironment ==
    << "a","r","c","h","i","t","e","c","t","u","r","a","l"," ","p","h",
       "o","t","o","g","r","a","p","h","y",","," ","i","n","t","e","r",
       "i","o","r"," ","d","e","s","i","g","n",","," ","p","r","o","f",
       "e","s","s","i","o","n","a","l"," ","l","i","g","h","t","i","n",
       "g" >>
ModMaterials ==
    << "m","a","t","e","r","i","a","l"," ","p","h","o","t","o","g","r",
       "a","p","h","y",","," ","t","e","x","t","u","r","e"," ","d","e",
       "t","a","i","l",","," ","i","n","d","u","s","t","r","i","a","l",
       " ","d","e","s","i","g","n" >>

(* The separator and the fixed suffix of enhance_prompt. *)
CommaSpace ==
    << ","," " >>
Suffix ==
    << ","," ","s","e","a","m","l","e","s","s"," ","t","i","l","i","n",
       "g",","," ","h","i","g","h"," ","r","e","s","o","l","u","t","i",
       "o","n",","," ","p","r","o","f","e","s","s","i","o","n","a","l",
       " ","q","u","a","l","i","t","y" >>

(* Prompts given to the generator: the five archetype-coverage prompts, the
   start-up test prompt, the endpoint's default prompt, and two prompts in
   mixed case that match several keyword sets. *)
PromptBud ==
    << "u","l","t","r","a"," ","p","h","o","t","o","r","e","a","l","i",
       "s","t","i","c"," ","c","a","n","n","a","b","i","s"," ","b","u",
       "d" >>
PromptSkin ==
    << "h","y","p","e","r","-","r","e","a","l","i","s","t","i","c"," ",
       "c","a","u","c","a","s","i","a","n"," ","m","a","l","e"," ","s",
       "k","i","n"," ","t","e","x","t","u","r","e" >>
PromptSoil ==
    << "p","r","e","m","i","u","m"," ","o","r","g","a","n","i","c"," ",
       "s","o","i","l"," ","b","l","e","n","d" >>
PromptWood ==
    << "w","e","a","t","h","e","r","e","d"," ","b","a","r","n"," ","w",
       "o","o","d"," ","t","e","x","t","u","r","e" >>
PromptMetal ==
    << "b","r","u","s","h","e","d"," ","a","l","u","m","i","n","u","m",
       " ","e","q","u","i","p","m","e","n","t"," ","t","e","x","t","u",
       "r","e" >>
PromptTest ==
    << "t","e","s","t"," ","c","a","n","n","a","b","i","s"," ","b","u",
       "d"," ","t","e","x","t","u","r","e" >>
PromptDefault ==
    << "g","e","n","e","r","i","c"," ","t","e","x","t","u","r","e" >>
PromptAvatarEarth ==
    << "A","v","a","t","a","r"," ","o","n"," ","E","A","R","T","H" >>
PromptWoodenBud ==
    << "W","o","o","d","e","n"," ","B","U","D"," ","b","o","x" >>

(* Resolution values that arrive as JSON strings. *)
Str512 ==
    << "5","1","2" >>
Str300 ==
    << "3","0","0" >>
StrLarge ==
    << "l","a","r","g","e" >>

(* Character tables: the letters str.lower() maps, the digits, and the
   punctuation that occurs in the texts, with its character codes. *)
Punctuation ==
    << " ", ",", "-", "." >>
PunctuationCode ==
    << 32, 44, 45, 46 >>
Digits ==
    << "0","1","2","3","4","5","6","7","8","9" >>
UpperCase ==
    << "A","B","C","D","E","F","G","H","I","J","K","L","M","N","O","P",
       "Q","R","S","T","U","V","W","X","Y","Z" >>
LowerCase ==
    << "a","b","c","d","e","f","g","h","i","j","k","l","m","n","o","p",
       "q","r","s","t","u","v","w","x","y","z" >>

(***************************************************************************)
(* Text operations.                                                        *)
(***************************************************************************)
Range(f) == {f[k] : k \in DOMAIN f}
Chars == Range(UpperCase) \cup Range(LowerCase) \cup Range(Digits) \cup Range(Punctuation)
IndexIn(f, ch) == CHOOSE k \in DOMAIN f : f[k] = ch

(* The table behind str.lower(): an upper-case ASCII letter maps to its
   lower-case letter, every other character to itself. *)
LowerOf ==
    [ch \in Chars |->
        IF ch \in Range(UpperCase) THEN LowerCase[IndexIn(UpperCase, ch)] ELSE ch]

(* str.lower() *)
lower(s) == [k \in 1..Len(s) |-> LowerOf[s[k]]]

(* The substring test (sub in s) of Python strings. *)
PyIn(sub, s) ==
    \E k \in 0..(Len(s) - Len(sub)) :
        \A j \in 1..Len(sub) : s[k + j] = sub[j]

(* ord(): the character's code. *)
OrdOf ==
    [ch \in Chars |->
        IF ch \in Range(UpperCase) THEN 64 + IndexIn(UpperCase, ch)
        ELSE IF ch \in Range(LowerCase) THEN 96 + IndexIn(LowerCase, ch)
        ELSE IF ch \in Range(Digits) THEN 47 + IndexIn(Digits, ch)
        ELSE PunctuationCode[IndexIn(Punctuation, ch)]]

(* The digits int() accepts in a string, with their values. *)
DigitValue(ch) == IndexIn(Digits, ch) - 1
IsDigit(ch) == ch \in Range(Digits)

(* int(s) for a string s: the decimal value of a non-empty string of digits;
   any other string raises ValueError (ok = FALSE). *)
RECURSIVE DecimalValue(_, _)
DecimalValue(s, acc) ==
    IF s = <<>> THEN acc
    ELSE DecimalValue(Tail(s), acc * 10 + DigitValue(Head(s)))
IntOfString(s) ==
    IF s # <<>> /\ \A k \in 1..Len(s) : IsDigit(s[k])
    THEN [ok |-> TRUE, value |-> DecimalValue(s, 0)]
    ELSE [ok |-> FALSE, value |-> 0]

(***************************************************************************)
(* hash(prompt) % 2**32.  Python salts the hash of a string with a key     *)
(* drawn when the process starts (PYTHONHASHSEED), so hash is a function   *)
(* of the text and of the process's key.  The keyed hash is modelled by a  *)
(* keyed polynomial hash of the character codes.  TLC's integers are 32    *)
(* bits wide, so the hash is 15 bits wide instead of 64, and the seed 12   *)
(* bits wide instead of 32.                                                *)
(***************************************************************************)
HashSpace == 2 ^ 15
SeedSpace == 2 ^ 12

(* 31^k modulo HashSpace *)
RECURSIVE Pow31(_)
Pow31(k) ==
    IF k = 0 THEN 1
    ELSE LET h  == Pow31(k \div 2)
             sq == (h * h) % HashSpace
         IN  IF k % 2 = 1 THEN (sq * 31) % HashSpace ELSE sq

(* The polynomial s[a]*31^(b-a) + ... + s[b] modulo HashSpace *)
RECURSIVE Poly(_, _, _)
Poly(s, a, b) ==
    IF a > b THEN 0
    ELSE IF a = b THEN OrdOf[s[a]]
    ELSE LET m == (a + b) \div 2
         IN  (Poly(s, a, m) * Pow31(b - m) + Poly(s, m + 1, b)) % HashSpace

(* hash(s) in a process whose hash key is key. *)
PyHash(s, key) ==
    LET start == (key * 1000003 + Len(s)) % HashSpace
    IN  (start * Pow31(Len(s)) + Poly(s, 1, Len(s))) % HashSpace

(***************************************************************************)
(* numpy's global random generator (module np.random), one per process.    *)
(* Its                                                                     *)
(* state is the seed it was last given and the draws made since; what a    *)
(* draw returns is determined by the state it is made in and by what is    *)
(* drawn, so a sample is named by that pair.                                *)
(***************************************************************************)
RngInit == [seeded |-> FALSE, seed |-> 0, drawn |-> <<>>]

(* np.random.seed(seed) *)
np_random_seed(seed) == [seeded |-> TRUE, seed |-> seed, drawn |-> <<>>]

(* np.random.rand and np.random.normal with the given shape: the sample,
   and the generator's state after it. *)
np_random_draw(rng, dist, shape) ==
    LET what == [dist |-> dist, shape |-> shape]
    IN  [sample |-> [from |-> rng, what |-> what],
         rng    |-> [rng EXCEPT !.drawn = Append(@, what)]]

(* The sample of an array that holds no random numbers. *)
NoSample == [from |-> RngInit, what |-> [dist |-> "none", shape |-> <<>>]]

(***************************************************************************)
(* Arrays and images.  An array has a shape (rows, columns, channels) and  *)
(* an element type; an image has a size (width, height) and a mode.  The   *)
(* pixel data of a full-resolution array is carried as the expression      *)
(* that computes it: the random sample of the base field, the random       *)
(* sample of the post-processing noise, and the sequence of the            *)
(* operations applied.  Two arrays with the same expression hold the same  *)
(* bytes.                                                                  *)
(***************************************************************************)
NoImage ==
    [size |-> <<0, 0>>, mode |-> "", field |-> NoSample, noise |-> NoSample,
     ops |-> <<>>]

(* Image.fromarray(arr) of an 8-bit array with three channels: width is
   the number of columns, height the number of rows. *)
Image_fromarray(arr) ==
    [size |-> <<arr.shape[2], arr.shape[1]>>,
     mode |-> IF arr.shape[3] = 3 /\ arr.dtype = "uint8" THEN "RGB" ELSE "?",
     field |-> arr.field, noise |-> arr.noise, ops |-> arr.ops]

(* np.array(image): rows = height, columns = width, one channel per band. *)
np_array(image) ==
    [shape |-> <<image.size[2], image.size[1], IF image.mode = "RGB" THEN 3 ELSE 1>>,
     dtype |-> "uint8",
     field |-> image.field, noise |-> image.noise, ops |-> image.ops]

(* arr.astype(np.uint8) *)
astype_uint8(arr) == [arr EXCEPT !.dtype = "uint8"]

(* The operations applied to image after that were not yet applied to
   image before. *)
NewOps(before, after) == SubSeq(after.ops, Len(before.ops) + 1, Len(after.ops))

(* An elementwise operation in floating point on an array. *)
FloatOp(arr, name) == [arr EXCEPT !.dtype = "float64", !.ops = Append(@, name)]

(***************************************************************************)
(* enhance_prompt                                                          *)
(***************************************************************************)
(* style_modifiers.get(style, '') *)
style_modifiers_get(style) ==
    CASE style = "photorealistic" -> ModPhotorealistic
      [] style = "artistic"       -> ModArtistic
      [] style = "cartoon"        -> ModCartoon
      [] style = "abstract"       -> ModAbstract
      [] OTHER                    -> <<>>

category_modifiers_keys == {"cannabis", "avatar", "environment", "materials"}

category_modifiers(category) ==
    CASE category = "cannabis"    -> ModCannabis
      [] category = "avatar"      -> ModAvatar
      [] category = "environment" -> ModEnvironment
      [] category = "materials"   -> ModMaterials

(* enhance_prompt that appends no category text. *)
enhance_prompt_NoCategory(prompt, style, category) ==
    prompt \o CommaSpace \o style_modifiers_get(style) \o Suffix

(* enhance_prompt that appends the separator and the category text, empty
   when the category is not in the table, in every call. *)
enhance_prompt_AlwaysSeparator(prompt, style, category) ==
    prompt \o CommaSpace \o style_modifiers_get(style) \o CommaSpace
        \o (IF category \in category_modifiers_keys
            THEN category_modifiers(category) ELSE <<>>)
        \o Suffix

enhance_prompt(prompt, style, category) ==
    LET enhanced == prompt \o CommaSpace \o style_modifiers_get(style)
        withCategory ==
            IF category \in category_modifiers_keys
            THEN enhanced \o CommaSpace \o category_modifiers(category)
            ELSE enhanced
    IN  withCategory \o Suffix

(***************************************************************************)
(* create_procedural_texture and the five colorizers                       *)
(***************************************************************************)
(* The classifier with the skin keywords tested before the organic-plant
   keywords. *)
Archetype_SkinFirst(prompt) ==
    LET p == lower(prompt)
    IN  IF PyIn(KwSkin, p) \/ PyIn(KwAvatar, p) THEN "skin"
        ELSE IF PyIn(KwCannabis, p) \/ PyIn(KwBud, p) THEN "organic-plant"
        ELSE IF PyIn(KwSoil, p) \/ PyIn(KwEarth, p) THEN "soil"
        ELSE IF PyIn(KwWood, p) THEN "wood"
        ELSE "generic"

(* The branch create_procedural_texture takes for the prompt it is given. *)
Archetype(prompt) ==
    LET p == lower(prompt)
    IN  IF PyIn(KwCannabis, p) \/ PyIn(KwBud, p) THEN "organic-plant"
        ELSE IF PyIn(KwSkin, p) \/ PyIn(KwAvatar, p) THEN "skin"
        ELSE IF PyIn(KwSoil, p) \/ PyIn(KwEarth, p) THEN "soil"
        ELSE IF PyIn(KwWood, p) THEN "wood"
        ELSE "generic"

(* np.zeros((resolution, resolution, 3)) filled from the noise channels. *)
Colorized(noise, resolution, name) ==
    [shape |-> <<resolution, resolution, 3>>, dtype |-> "float64",
     field |-> noise.field, noise |-> NoSample, ops |-> <<name>>]

create_cannabis_texture(noise, resolution) ==
    Colorized(noise, resolution, "create_cannabis_texture")

create_skin_texture(noise, resolution) ==
    Colorized(noise, resolution, "create_skin_texture")

create_soil_texture(noise, resolution) ==
    Colorized(noise, resolution, "create_soil_texture")

create_wood_texture(noise, resolution) ==
    Colorized(noise, resolution, "create_wood_texture")

(* texture = base_color = 0.5 + noise * 0.3: the shape is the noise's. *)
create_generic_texture(noise, resolution) ==
    [noise EXCEPT !.ops = <<"create_generic_texture">>]

(* Lines 147-149: the seed of the base field. *)
SeedOf(prompt, key) == PyHash(prompt, key) % SeedSpace

(* Lines 149-170, after the generator was seeded: draw the base field,
   colorize it by archetype and convert it to an image. *)
create_procedural_texture(prompt, resolution, rng) ==
    LET draw  == np_random_draw(rng, "rand", <<resolution, resolution, 3>>)
        noise == [shape |-> <<resolution, resolution, 3>>, dtype |-> "float64",
                  field |-> draw.sample, noise |-> NoSample, ops |-> <<>>]
        arch  == Archetype(prompt)
        texture ==
            CASE arch = "organic-plant" -> create_cannabis_texture(noise, resolution)
              [] arch = "skin"          -> create_skin_texture(noise, resolution)
              [] arch = "soil"          -> create_soil_texture(noise, resolution)
              [] arch = "wood"          -> create_wood_texture(noise, resolution)
              [] OTHER                  -> create_generic_texture(noise, resolution)
        texture_uint8 == astype_uint8(FloatOp(texture, "*255"))
    IN  [image |-> Image_fromarray(texture_uint8), rng |-> draw.rng,
         archetype |-> arch,
         steps |-> <<"np.random.rand", "keyword dispatch">> \o texture_uint8.ops]

(***************************************************************************)
(* post_process_texture                                                    *)
(***************************************************************************)
enhance_cannabis_texture(img_array, rng) ==
    LET green == [img_array EXCEPT !.ops = Append(@, "green*1.2")]
        draw  == np_random_draw(rng, "normal(0,5)", green.shape)
    IN  [array |-> [FloatOp(green, "+noise") EXCEPT !.noise = draw.sample],
         rng   |-> draw.rng]

enhance_skin_texture(img_array, rng) ==
    LET blurred == [img_array EXCEPT !.ops = Append(@, "GaussianBlur")]
        draw    == np_random_draw(rng, "normal(1,0.02)", blurred.shape)
    IN  [array |-> [FloatOp(blurred, "*variation") EXCEPT !.noise = draw.sample],
         rng   |-> draw.rng]

enhance_environment_texture(img_array) ==
    FloatOp(img_array, "contrast_stretch")

(* The three enhancements with the contrast taken first. *)
apply_pil_enhancements_ContrastFirst(image) ==
    [image EXCEPT !.ops = @ \o <<"Contrast(1.1)", "Sharpness(1.2)", "Color(1.05)">>]

(* Sharpness 1.2, then Contrast 1.1, then Color 1.05; each keeps the size. *)
apply_pil_enhancements(image) ==
    [image EXCEPT !.ops = @ \o <<"Sharpness(1.2)", "Contrast(1.1)", "Color(1.05)">>]

post_process_texture(image, category, rng) ==
    LET img_array == np_array(image)
        staged ==
            IF category = "cannabis" THEN enhance_cannabis_texture(img_array, rng)
            ELSE IF category = "avatar" THEN enhance_skin_texture(img_array, rng)
            ELSE IF category = "environment"
                 THEN [array |-> enhance_environment_texture(img_array), rng |-> rng]
            ELSE [array |-> img_array, rng |-> rng]
        processed_image == Image_fromarray(astype_uint8(staged.array))
    IN  [image |-> apply_pil_enhancements(processed_image), rng |-> staged.rng]

(***************************************************************************)
(* make_seamless and create_fallback_texture, on whole images              *)
(***************************************************************************)
(* The border rewrite keeps the array's shape; its arithmetic on pixels is
   modelled on concrete arrays further down. *)
make_seamless(image) ==
    LET img_array == np_array(image)
    IN  Image_fromarray(astype_uint8(FloatOp(img_array, "make_seamless")))

(* The categories for which generate_texture calls make_seamless. *)
SeamlessCategories == {"materials", "environments"}

(* np.random.rand raises for a negative dimension. *)
RandRaises(resolution) == resolution < 0

(* np.linspace raises for a negative number of samples. *)
LinspaceRaises(num) == num < 0

(* create_fallback_texture raises when np.linspace does (line 327); for a
   resolution of 0 the array has no pixels, and whether Image.fromarray
   (line 333) accepts it depends on the version of the imaging library: it
   can return and it can raise. *)
FallbackCanRaise(resolution) == LinspaceRaises(resolution) \/ resolution = 0
FallbackCanReturn(resolution) == ~LinspaceRaises(resolution)

(* create_fallback_texture that ignores its argument and builds the image
   at the default resolution. *)
create_fallback_texture_Fixed(resolution) ==
    Image_fromarray([shape |-> <<1024, 1024, 3>>, dtype |-> "uint8",
                     field |-> NoSample, noise |-> NoSample,
                     ops |-> <<"fallback_gradient">>])

(* np.zeros((resolution, resolution, 3), dtype=np.uint8), rows filled with
   the gradient. *)
create_fallback_texture(resolution) ==
    Image_fromarray([shape |-> <<resolution, resolution, 3>>, dtype |-> "uint8",
                     field |-> NoSample, noise |-> NoSample,
                     ops |-> <<"fallback_gradient">>])

(***************************************************************************)
(* The /api/generate-texture request                                       *)
(***************************************************************************)
(* A field of the request's JSON object: present with a value, or absent. *)
Present(v) == [has |-> TRUE, v |-> v]
AbsentText == [has |-> FALSE, v |-> <<>>]
AbsentName == [has |-> FALSE, v |-> ""]

(* data.get(key, default) *)
get(entry, default) == IF entry.has THEN entry.v ELSE default

(* JSON values of the "resolution" key: an integer, a number with a
   fraction (n is its integer part), a string, null, or no such key. *)
JInt(n) == [t |-> "int", n |-> n, s |-> <<>>]
JFloat(n) == [t |-> "float", n |-> n, s |-> <<>>]
JStr(s) == [t |-> "str", n |-> 0, s |-> s]
JNull == [t |-> "null", n |-> 0, s |-> <<>>]
JAbsent == [t |-> "absent", n |-> 0, s |-> <<>>]

DefaultResolution == 1024
CoercedResolution == 1024
ValidResolutions == {512, 1024, 2048}
ValidStyles == {"photorealistic", "artistic", "cartoon", "abstract"}

(* int(data.get('resolution', 1024)): int() truncates a number, parses a
   string of digits, and raises on any other string and on None. *)
ParseResolution(j) ==
    CASE j.t = "absent" -> [ok |-> TRUE, value |-> DefaultResolution]
      [] j.t = "int"    -> [ok |-> TRUE, value |-> j.n]
      [] j.t = "float"  -> [ok |-> TRUE, value |-> j.n]
      [] j.t = "str"    -> IntOfString(j.s)
      [] OTHER          -> [ok |-> FALSE, value |-> 0]

(* Lines 349-353 *)
ValidateResolution(resolution) ==
    IF resolution \notin ValidResolutions THEN CoercedResolution ELSE resolution

ValidateStyle(style) ==
    IF style \notin ValidStyles THEN "photorealistic" ELSE style

(***************************************************************************)
(* State.                                                                  *)
(*   call[c]     one call of generate_texture: its arguments, where it is, *)
(*               and what it has computed; raisedAt is the stage of        *)
(*               generate_texture that raised, handlerError the statement  *)
(*               of the endpoint that raised, stages the steps of the      *)
(*               pipeline it has run, in the order it ran them             *)
(*   rng[p]      the state of process p's global numpy random generator    *)
(*   hashKey[p]  process p's string-hash key                                *)
(*   tiler       one run of make_seamless on a concrete pixel array        *)
(*   fallback    one run of create_fallback_texture on a concrete array    *)
(*   patch       one run of the colorizer and of post_process_texture on a *)
(*               concrete patch of pixels                                  *)
(*   tint        one pixel of create_procedural_texture: the archetype,    *)
(*               the field values, the row, the float colour and the       *)
(*               8-bit colour                                              *)
(*   db          the rows of the GameState table, in the order of their    *)
(*               ids                                                       *)
(*   game[q]     the request worker q is serving on the game blueprint:    *)
(*               its body, where it is, what its session holds, and its    *)
(*               response                                                  *)
(***************************************************************************)
VARIABLES call, rng, hashKey, tiler, fallback, patch, tint, db, game

MaxHashKey == 1
Calls == {1, 2}
Procs == {1, 2}

NoData ==
    [prompt |-> AbsentText, style |-> AbsentName, resolution |-> JAbsent,
     category |-> AbsentName]

NoResponse ==
    [status |-> 0, success |-> FALSE, resolution |-> 0, style |-> "",
     category |-> "", prompt |-> <<>>]

IdleCall ==
    [pc |-> "idle", kind |-> "", proc |-> 1, data |-> NoData,
     prompt |-> <<>>, style |-> "", resolution |-> 0, category |-> "",
     enhanced_prompt |-> <<>>, seed |-> 0, archetype |-> "",
     image |-> NoImage, result |-> NoImage, raisedAt |-> "",
     handlerError |-> "", overlapped |-> FALSE, response |-> NoResponse,
     stages |-> <<>>]

(* A call is running from its start until generate_texture has returned
   and, for a request, the response was sent. *)
Running(c) ==
    call[c].pc \notin {"idle", "done", "propagated"}
    /\ ~(call[c].kind = "direct" /\ call[c].pc = "returned")

(* The calls that run in process p while call c starts there. *)
Concurrent(c, p) == {d \in Calls \ {c} : Running(d) /\ call[d].proc = p}

(* The call records when call c starts as started: it and every call that
   is running in its process overlap. *)
Started(c, started) ==
    [d \in Calls |->
        IF d = c
        THEN [started EXCEPT !.overlapped = Concurrent(c, started.proc) # {}]
        ELSE IF d \in Concurrent(c, started.proc)
             THEN [call[d] EXCEPT !.overlapped = TRUE]
             ELSE call[d]]

(***************************************************************************)
(* Actions.  U is the universe the inputs are drawn from.                  *)
(***************************************************************************)
(* A direct call of texture_generator.generate_texture, as in the start-up
   test of lines 471-479. *)
DirectCall(c, U) ==
    /\ call[c].pc = "idle"
    /\ \E p \in U.procs, prompt \in U.prompts, style \in U.styles,
          resolution \in U.resolutions, category \in U.categories :
          call' = Started(c, [IdleCall EXCEPT
                      !.pc = "called", !.kind = "direct", !.proc = p,
                      !.prompt = prompt, !.style = style,
                      !.resolution = resolution, !.category = category])
    /\ UNCHANGED <<rng, hashKey, tiler, fallback, patch, tint, db, game>>

(* Lines 341-355 of the endpoint: read the request, convert and validate. *)
HttpReceive(c, U) ==
    /\ call[c].pc = "idle"
    /\ \E p \in U.procs, data \in U.requests :
          LET prompt     == get(data.prompt, PromptDefault)
              style      == get(data.style, "photorealistic")
              parsed     == ParseResolution(data.resolution)
              category   == get(data.category, "general")
              received   == [IdleCall EXCEPT
                                !.kind = "http", !.proc = p, !.data = data,
                                !.prompt = prompt, !.category = category]
          IN  call' = Started(c,
                  IF parsed.ok
                  THEN [received EXCEPT
                           !.pc = "called",
                           !.style = ValidateStyle(style),
                           !.resolution = ValidateResolution(parsed.value)]
                  ELSE [received EXCEPT
                           !.pc = "handler_except", !.style = style,
                           !.handlerError = "int"])
    /\ UNCHANGED <<rng, hashKey, tiler, fallback, patch, tint, db, game>>

(* Line 99 *)
GT_EnhancePrompt(c) ==
    /\ call[c].pc = "called"
    /\ call' = [call EXCEPT
                   ![c].enhanced_prompt =
                       enhance_prompt(call[c].prompt, call[c].style, call[c].category),
                   ![c].pc = "enhanced"]
    /\ UNCHANGED <<rng, hashKey, tiler, fallback, patch, tint, db, game>>

(* Line 148: np.random.seed(hash(prompt) % 2**32) *)
CPT_Seed(c) ==
    /\ call[c].pc = "enhanced"
    /\ LET seed == SeedOf(call[c].enhanced_prompt, hashKey[call[c].proc])
       IN  /\ rng' = [rng EXCEPT ![call[c].proc] = np_random_seed(seed)]
           /\ call' = [call EXCEPT ![c].seed = seed, ![c].pc = "seeded",
                                   ![c].stages = Append(@, "np.random.seed")]
    /\ UNCHANGED <<hashKey, tiler, fallback, patch, tint, db, game>>

(* Lines 149-170 *)
CPT_Texture(c) ==
    /\ call[c].pc = "seeded"
    /\ ~RandRaises(call[c].resolution)
    /\ LET made == create_procedural_texture(call[c].enhanced_prompt,
                       call[c].resolution, rng[call[c].proc])
       IN  /\ rng' = [rng EXCEPT ![call[c].proc] = made.rng]
           /\ call' = [call EXCEPT ![c].image = made.image,
                                   ![c].archetype = made.archetype,
                                   ![c].stages = @ \o made.steps,
                                   ![c].pc = "textured"]
    /\ UNCHANGED <<hashKey, tiler, fallback, patch, tint, db, game>>

(* Line 106 *)
GT_PostProcess(c) ==
    /\ call[c].pc = "textured"
    /\ LET done == post_process_texture(call[c].image, call[c].category,
                       rng[call[c].proc])
       IN  /\ rng' = [rng EXCEPT ![call[c].proc] = done.rng]
           /\ call' = [call EXCEPT
                          ![c].image = done.image,
                          ![c].stages = @ \o NewOps(call[c].image, done.image),
                          ![c].pc = "processed"]
    /\ UNCHANGED <<hashKey, tiler, fallback, patch, tint, db, game>>

(* Lines 108-112 *)
GT_Return(c) ==
    /\ call[c].pc = "processed"
    /\ LET processed_texture ==
               IF call[c].category \in SeamlessCategories
               THEN make_seamless(call[c].image)
               ELSE call[c].image
       IN  call' = [call EXCEPT
                       ![c].result = processed_texture,
                       ![c].stages = @ \o NewOps(call[c].image, processed_texture),
                       ![c].pc = "returned"]
    /\ UNCHANGED <<rng, hashKey, tiler, fallback, patch, tint, db, game>>

(* The stage that runs next raises (out of memory, a failure inside numpy,
   OpenCV or PIL).  The tiling stage exists only for the categories that are
   tiled. *)
GT_Raise(c) ==
    /\ call[c].pc \in {"called", "enhanced", "seeded", "textured", "processed"}
    /\ call[c].pc = "processed" => call[c].category \in SeamlessCategories
    /\ call' = [call EXCEPT ![c].raisedAt = call[c].pc, ![c].pc = "raised"]
    /\ UNCHANGED <<rng, hashKey, tiler, fallback, patch, tint, db, game>>

(* GT_Except with an except clause that does not catch the exception: it
   reaches the caller. *)
GT_Except_Propagates(c) ==
    /\ call[c].pc = "raised"
    /\ call' = [call EXCEPT ![c].handlerError = "generate_texture",
                            ![c].pc = "handler_except"]
    /\ UNCHANGED <<rng, hashKey, tiler, fallback, patch, tint, db, game>>

(* Lines 114-116: create_fallback_texture raises inside the except clause;
   the exception leaves generate_texture and reaches the caller. *)
GT_ExceptRaises(c) ==
    /\ call[c].pc = "raised"
    /\ FallbackCanRaise(call[c].resolution)
    /\ call' = [call EXCEPT ![c].stages = Append(@, "create_fallback_texture"),
                            ![c].pc = "propagated"]
    /\ UNCHANGED <<rng, hashKey, tiler, fallback, patch, tint, db, game>>

(* Lines 114-116: except Exception *)
GT_Except(c) ==
    /\ call[c].pc = "raised"
    /\ FallbackCanReturn(call[c].resolution)
    /\ call' = [call EXCEPT
                   ![c].result = create_fallback_texture(call[c].resolution),
                   ![c].stages = Append(@, "create_fallback_texture"),
                   ![c].pc = "returned"]
    /\ UNCHANGED <<rng, hashKey, tiler, fallback, patch, tint, db, game>>

(* HttpRespond with a success flag that reports whether the image is a
   generated one. *)
HttpRespond_FlagsFallback(c) ==
    /\ call[c].kind = "http" /\ call[c].pc = "returned"
    /\ call' = [call EXCEPT
                   ![c].response =
                       [status |-> 200, success |-> call[c].raisedAt = "",
                        resolution |-> call[c].resolution,
                        style |-> call[c].style,
                        category |-> call[c].category,
                        prompt |-> call[c].prompt],
                   ![c].pc = "done"]
    /\ UNCHANGED <<rng, hashKey, tiler, fallback, patch, tint, db, game>>

(* Lines 360-386: the image and its thumbnail are saved, the response is
   sent. *)
HttpRespond(c) ==
    /\ call[c].kind = "http" /\ call[c].pc = "returned"
    /\ call' = [call EXCEPT
                   ![c].response =
                       [status |-> 200, success |-> TRUE,
                        resolution |-> call[c].resolution,
                        style |-> call[c].style,
                        category |-> call[c].category,
                        prompt |-> call[c].prompt],
                   ![c].pc = "done"]
    /\ UNCHANGED <<rng, hashKey, tiler, fallback, patch, tint, db, game>>

(* Lines 366, 373: saving the image or the thumbnail raises. *)
HttpSaveRaises(c) ==
    /\ call[c].kind = "http" /\ call[c].pc = "returned"
    /\ call' = [call EXCEPT ![c].handlerError = "save", ![c].pc = "handler_except"]
    /\ UNCHANGED <<rng, hashKey, tiler, fallback, patch, tint, db, game>>

(* Lines 388-393 *)
HttpError(c) ==
    /\ call[c].pc = "handler_except"
    /\ call' = [call EXCEPT
                   ![c].response = [NoResponse EXCEPT !.status = 500],
                   ![c].pc = "done"]
    /\ UNCHANGED <<rng, hashKey, tiler, fallback, patch, tint, db, game>>

(***************************************************************************)
(* make_seamless on concrete arrays.  An array is indexed from 0 by row    *)
(* and column; a pixel is its three 8-bit channels.                        *)
(***************************************************************************)
Channels == 1..3

Min(a, b) == IF a < b THEN a ELSE b

(* The images make_seamless is run on: h rows, w columns, and a pattern. *)
MaxTilerDim == 32
TilerDims == {5, 8, 9, 16, 17, MaxTilerDim}
Patterns ==
    {"rows", "columns", "halves", "sides", "checker", "mix", "scatter", "flat", "frame"}

Gray(v) == [ch \in Channels |-> v]

TestPixel(h, w, pattern, r, c) ==
    CASE pattern = "rows"    -> Gray((r * 255) \div (h - 1))
      [] pattern = "columns" -> Gray((c * 255) \div (w - 1))
      [] pattern = "halves"  -> Gray(IF r < h \div 2 THEN 0 ELSE 255)
      [] pattern = "sides"   -> Gray(IF c < w \div 2 THEN 0 ELSE 255)
      [] pattern = "checker" -> Gray(((r + c) % 2) * 255)
      [] pattern = "mix"     -> <<(r * 37 + c * 11) % 256,
                                  (r * 5 + c * 53 + 17) % 256,
                                  (r * 101 + c * 7 + 200) % 256>>
      [] pattern = "scatter" -> <<(r * r * 7 + c * c * 13 + r * c * 31) % 256,
                                  ((r * r * 7 + c * c * 13 + r * c * 31 + 57) * 89) % 256,
                                  (r * c * c * 3 + r * r * c * 5 + r * 29 + c * 71 + 114) % 251>>
      [] pattern = "flat"    -> <<100, 150, 200>>
      [] pattern = "frame"   ->
            Gray(IF r = 0 \/ c = 0 \/ r = h - 1 \/ c = w - 1 THEN 255 ELSE 0)

TestImage(h, w, pattern) ==
    [r \in 0..(h - 1) |-> [c \in 0..(w - 1) |-> TestPixel(h, w, pattern, r, c)]]

(* (1 - alpha) * a + alpha * b with alpha = i / blend_size, stored into the
   8-bit array: the fraction is cut off.  For the blend widths that occur
   (powers of two, as for 512, 1024 and 2048) alpha and the products are
   exact in floating point, so the value is the exact quotient. *)
Blend(a, b, i, blend_size) ==
    [ch \in Channels |-> ((blend_size - i) * a[ch] + i * b[ch]) \div blend_size]

(* img_array[r] = (1 - alpha) * img_array[from] + alpha * img_array[r] *)
BlendRow(arr, r, from, i, blend_size) ==
    [arr EXCEPT ![r] =
        [c \in DOMAIN arr[r] |-> Blend(arr[from][c], arr[r][c], i, blend_size)]]

(* img_array[:, c] = (1 - alpha) * img_array[:, from] + alpha * img_array[:, c] *)
BlendColumn(arr, c, from, i, blend_size) ==
    [r \in DOMAIN arr |->
        [arr[r] EXCEPT ![c] = Blend(arr[r][from], arr[r][c], i, blend_size)]]

(* The top blend written one row too low. *)
blend_top_OffByOne(arr, i, h, blend_size) ==
    BlendRow(arr, i + 1, h - blend_size + i, i, blend_size)

(* Line 315 *)
blend_top(arr, i, h, blend_size) ==
    BlendRow(arr, i, h - blend_size + i, i, blend_size)

(* The bottom blend reading the top band from its outer edge inwards. *)
blend_bottom_FromTopEdge(arr, i, h, blend_size) ==
    BlendRow(arr, h - 1 - i, i, i, blend_size)

(* Line 316 *)
blend_bottom(arr, i, h, blend_size) ==
    BlendRow(arr, h - 1 - i, blend_size - 1 - i, i, blend_size)

(* Line 319 *)
blend_left(arr, i, w, blend_size) ==
    BlendColumn(arr, i, w - blend_size + i, i, blend_size)

(* Line 320 *)
blend_right(arr, i, w, blend_size) ==
    BlendColumn(arr, w - 1 - i, blend_size - 1 - i, i, blend_size)

(* An iteration whose four assignments all read the array as it was when
   the iteration began. *)
seamless_iteration_Snapshot(arr, i, h, w, blend_size) ==
    LET top    == blend_top(arr, i, h, blend_size)
        bottom == blend_bottom(arr, i, h, blend_size)
        left   == blend_left(arr, i, w, blend_size)
        right  == blend_right(arr, i, w, blend_size)
    IN  [r \in DOMAIN arr |-> [c \in DOMAIN arr[r] |->
            IF c = w - 1 - i THEN right[r][c]
            ELSE IF c = i THEN left[r][c]
            ELSE IF r = h - 1 - i THEN bottom[r][c]
            ELSE IF r = i THEN top[r][c]
            ELSE arr[r][c]]]

(* One iteration of the loop of lines 311-320: the four assignments in
   order, each reading the array as the previous one left it. *)
seamless_iteration(arr, i, h, w, blend_size) ==
    LET top    == blend_top(arr, i, h, blend_size)
        bottom == blend_bottom(top, i, h, blend_size)
        left   == blend_left(bottom, i, w, blend_size)
    IN  blend_right(left, i, w, blend_size)

TilerIdle ==
    [pc |-> "idle", h |-> 0, w |-> 0, image |-> <<>>, img_array |-> <<>>,
     blend_size |-> 0, i |-> 0, out |-> <<>>]

(* Lines 304-308: img_array is a copy of the image's pixels. *)
MS_Begin ==
    /\ tiler.pc = "idle"
    /\ \E h \in TilerDims, w \in TilerDims, pattern \in Patterns :
          LET image == TestImage(h, w, pattern)
          IN  tiler' = [TilerIdle EXCEPT
                           !.pc = "loop", !.h = h, !.w = w, !.image = image,
                           !.img_array = image,
                           !.blend_size = Min(h, w) \div 8]
    /\ UNCHANGED <<call, rng, hashKey, fallback, patch, tint, db, game>>

(* One iteration on an array that shares its pixels with the image given. *)
MS_Iterate_InPlace ==
    /\ tiler.pc = "loop"
    /\ tiler.i < tiler.blend_size
    /\ LET arr == seamless_iteration(tiler.img_array, tiler.i, tiler.h, tiler.w,
                                     tiler.blend_size)
       IN  tiler' = [tiler EXCEPT !.img_array = arr, !.image = arr,
                                  !.i = tiler.i + 1]
    /\ UNCHANGED <<call, rng, hashKey, fallback, patch, tint, db, game>>

(* Lines 311-320, one iteration *)
MS_Iterate ==
    /\ tiler.pc = "loop"
    /\ tiler.i < tiler.blend_size
    /\ tiler' = [tiler EXCEPT
                    !.img_array = seamless_iteration(tiler.img_array, tiler.i,
                                      tiler.h, tiler.w, tiler.blend_size),
                    !.i = tiler.i + 1]
    /\ UNCHANGED <<call, rng, hashKey, fallback, patch, tint, db, game>>

(* Line 322 *)
MS_Return ==
    /\ tiler.pc = "loop"
    /\ tiler.i = tiler.blend_size
    /\ tiler' = [tiler EXCEPT !.out = tiler.img_array, !.pc = "done"]
    /\ UNCHANGED <<call, rng, hashKey, fallback, patch, tint, db, game>>

(***************************************************************************)
(* create_fallback_texture on concrete arrays.  A floating-point number is *)
(* carried as an exact fraction num / den with den > 0; storing it into an *)
(* 8-bit array cuts off its fraction.                                      *)
(***************************************************************************)
Frac(num, den) == [num |-> num, den |-> den]

(* float * 0.5 and float * 0.3 *)
TimesHalf(x) == Frac(x.num, x.den * 2)
TimesThreeTenths(x) == Frac(x.num * 3, x.den * 10)

(* The value a float within 0..255 has once stored in a uint8 array. *)
ToUint8(x) == x.num \div x.den

(* np.linspace(0, 255, num) without its last element included: the step is
   255 / num. *)
np_linspace_NoEndpoint(num) ==
    [i \in 0..(num - 1) |-> Frac(255 * i, num)]

(* np.linspace(0, 255, num) for num >= 0: num evenly spaced numbers from 0
   to 255, both included; the step is 255 / (num - 1), and a single number
   is the start. *)
np_linspace(num) ==
    [i \in 0..(num - 1) |->
        IF num = 1 THEN Frac(0, 1) ELSE Frac(255 * i, num - 1)]

(* np.zeros((resolution, resolution, 3), dtype=np.uint8) *)
np_zeros_uint8(resolution) ==
    [r \in 0..(resolution - 1) |-> [c \in 0..(resolution - 1) |-> <<0, 0, 0>>]]

(* Line 331: texture[i, :, :] = [gradient[i] * 0.5, 128, gradient[i] * 0.3] *)
fallback_fill_row(texture, gradient, i) ==
    [texture EXCEPT ![i] =
        [c \in DOMAIN texture[i] |->
            <<ToUint8(TimesHalf(gradient[i])), 128,
              ToUint8(TimesThreeTenths(gradient[i]))>>]]

MaxFallbackRes == 16
FallbackResolutions == (-1)..MaxFallbackRes

FallbackIdle ==
    [pc |-> "idle", resolution |-> 0, gradient |-> <<>>, texture |-> <<>>,
     i |-> 0, out |-> <<>>]

(* Lines 327-328 *)
FB_Begin ==
    /\ fallback.pc = "idle"
    /\ \E resolution \in FallbackResolutions :
          fallback' =
              IF LinspaceRaises(resolution)
              THEN [FallbackIdle EXCEPT !.pc = "raised", !.resolution = resolution]
              ELSE [FallbackIdle EXCEPT
                       !.pc = "loop", !.resolution = resolution,
                       !.gradient = np_linspace(resolution),
                       !.texture = np_zeros_uint8(resolution)]
    /\ UNCHANGED <<call, rng, hashKey, tiler, patch, tint, db, game>>

(* Lines 330-331, one iteration *)
FB_Row ==
    /\ fallback.pc = "loop"
    /\ fallback.i < fallback.resolution
    /\ fallback' = [fallback EXCEPT
                       !.texture = fallback_fill_row(fallback.texture,
                                       fallback.gradient, fallback.i),
                       !.i = fallback.i + 1]
    /\ UNCHANGED <<call, rng, hashKey, tiler, patch, tint, db, game>>

(* Line 333 *)
FB_Return ==
    /\ fallback.pc = "loop"
    /\ fallback.i = fallback.resolution
    /\ fallback' = [fallback EXCEPT !.out = fallback.texture, !.pc = "done"]
    /\ UNCHANGED <<call, rng, hashKey, tiler, patch, tint, db, game>>

(* Line 333 for an array with no pixels: whether Image.fromarray accepts it
   depends on the version of the imaging library; it returns an empty image
   (FB_Return) or raises. *)
FB_FromarrayRaises ==
    /\ fallback.pc = "loop"
    /\ fallback.i = fallback.resolution
    /\ fallback.resolution = 0
    /\ fallback' = [fallback EXCEPT !.pc = "raised"]
    /\ UNCHANGED <<call, rng, hashKey, tiler, patch, tint, db, game>>

(***************************************************************************)
(* The colorizer and post_process_texture on concrete arrays: a patch of   *)
(* PatchSize by PatchSize pixels.  A field value in [0, 1) is carried in   *)
(* thousandths, a float pixel value in tenths; the random noise of the     *)
(* organic-plant correction is a whole number per channel, the same at     *)
(* every pixel of the patch.                                               *)
(***************************************************************************)
PatchSize == 3
PatchIndex == 0..(PatchSize - 1)

Max(a, b) == IF a > b THEN a ELSE b

(* np.clip(x, lo, hi) *)
np_clip(x, lo, hi) == Max(lo, Min(x, hi))

PatchArray(f(_, _)) == [r \in PatchIndex |-> [c \in PatchIndex |-> f(r, c)]]

(* Lines 175-182 and 169: one pixel of create_cannabis_texture, in
   thousandths, then scaled by 255 and stored as 8 bits. *)
cannabis_pixel(f) ==
    LET texture == IF f[1] > 800 THEN <<900, 900, 700>>
                   ELSE <<100 + f[1] \div 5, 300 + (2 * f[2]) \div 5,
                          100 + f[3] \div 5>>
    IN  [ch \in Channels |-> (texture[ch] * 255) \div 1000]

(* Line 260, then 263-264: green times 1.2 clipped and stored back into the
   8-bit array, then noise added to every channel and clipped; in tenths. *)
enhance_cannabis_pixel(p, noise) ==
    LET green == [p EXCEPT ![2] = np_clip((p[2] * 12) \div 10, 0, 255)]
    IN  [ch \in Channels |-> np_clip((green[ch] + noise[ch]) * 10, 0, 2550)]

(* Line 282: img_array is an 8-bit unsigned array, so img_array - 128 is
   computed modulo 256; the product with 1.1 and the sum are floats; in
   tenths. *)
enhance_environment_pixel(p) ==
    [ch \in Channels |-> np_clip(((p[ch] - 128) % 256) * 11 + 1280, 0, 2550)]

(* Lines 239-250 on the patch: the correction chosen by category, then
   astype(np.uint8), which cuts off the fraction. *)
post_process_stage_a(img_array, category, noise) ==
    LET staged(r, c) ==
            LET p == img_array[r][c]
                t == IF category = "cannabis" THEN enhance_cannabis_pixel(p, noise)
                     ELSE IF category = "environment" THEN enhance_environment_pixel(p)
                     ELSE [ch \in Channels |-> p[ch] * 10]
            IN  [ch \in Channels |-> t[ch] \div 10]
    IN  PatchArray(staged)

(* Image.blend(im1, im2, alpha) with alpha = num / den above 1: the
   extrapolation im1 + alpha * (im2 - im1), clipped to 0..255 and cut to a
   whole number.  The library computes it in single precision; here it is
   computed exactly, which can differ by one in the last unit. *)
Image_blend_value(d, p, num, den) ==
    LET t == den * d + num * (p - d)
    IN  IF t <= 0 THEN 0 ELSE IF t >= 255 * den THEN 255 ELSE t \div den

Image_blend(im1, im2, num, den) ==
    LET px(r, c) == [ch \in Channels |->
                        Image_blend_value(im1[r][c][ch], im2[r][c][ch], num, den)]
    IN  PatchArray(px)

(* image.filter(ImageFilter.SMOOTH): the 3 by 3 kernel with weight 5 at the
   centre and 1 around it, divided by 13 and rounded; the pixels of the
   border are copied. *)
ImageFilter_SMOOTH(im) ==
    LET px(r, c) ==
            IF r = 0 \/ c = 0 \/ r = PatchSize - 1 \/ c = PatchSize - 1
            THEN im[r][c]
            ELSE [ch \in Channels |->
                    LET sum == im[r - 1][c - 1][ch] + im[r - 1][c][ch] + im[r - 1][c + 1][ch]
                             + im[r][c - 1][ch] + 5 * im[r][c][ch] + im[r][c + 1][ch]
                             + im[r + 1][c - 1][ch] + im[r + 1][c][ch] + im[r + 1][c + 1][ch]
                    IN  (2 * sum + 13) \div 26]
    IN  PatchArray(px)

(* image.convert("L"): L = R * 299/1000 + G * 587/1000 + B * 114/1000 *)
Luma(p) == (299 * p[1] + 587 * p[2] + 114 * p[3]) \div 1000

(* int(ImageStat.Stat(image.convert("L")).mean[0] + 0.5) *)
MeanLuma(im) ==
    LET count == PatchSize * PatchSize
        T[k \in 0..count] ==
            IF k = 0 THEN 0
            ELSE Luma(im[(k - 1) \div PatchSize][(k - 1) % PatchSize]) + T[k - 1]
    IN  (2 * T[count] + count) \div (2 * count)

(* Lines 289-298 on the patch: each enhancer blends its degenerate image
   (smoothed, flat mean grey, grey of the pixel) with the image. *)
apply_pil_enhancements_patch(image) ==
    LET sharp    == Image_blend(ImageFilter_SMOOTH(image), image, 12, 10)
        mean     == MeanLuma(sharp)
        flat(r, c) == Gray(mean)
        contrast == Image_blend(PatchArray(flat), sharp, 11, 10)
        grey(r, c) == Gray(Luma(contrast[r][c]))
    IN  Image_blend(PatchArray(grey), contrast, 105, 100)

MaxNoise == 5
NoiseLevels == {-MaxNoise, 0, MaxNoise}
NoNoise == <<0, 0, 0>>

(* The fields the patch is colorized from: channel 0 is above 0.8 at the
   pixels of a pattern and 0.5 elsewhere, channels 1 and 2 are flat. *)
SparklePatterns == {"none", "all", "centre", "corner", "diagonal"}
FieldLevels == {0, 500}

Sparkles(pattern, r, c) ==
    CASE pattern = "none"     -> FALSE
      [] pattern = "all"      -> TRUE
      [] pattern = "centre"   -> r = PatchSize \div 2 /\ c = PatchSize \div 2
      [] pattern = "corner"   -> r = 0 /\ c = 0
      [] pattern = "diagonal" -> r = c

TestField(pattern, f1, f2) ==
    LET f(r, c) == <<IF Sparkles(pattern, r, c) THEN 900 ELSE 500, f1, f2>>
    IN  PatchArray(f)

(* The 8-bit images post_process_texture is given directly: between them
   every channel value from 0 to 255 occurs. *)
GivenImage(base) ==
    LET p(r, c) == [ch \in Channels |->
                       (base + 29 * (PatchSize * r + c) + 97 * (ch - 1)) % 256]
    IN  PatchArray(p)

PatchCategories == {"cannabis", "environment", "general"}

PatchIdle ==
    [pc |-> "idle", field |-> <<>>, image |-> <<>>, category |-> "",
     noise |-> NoNoise, staged |-> <<>>, out |-> <<>>]

(* Lines 149-170 for a prompt of the organic-plant archetype: the field is
   colorized by create_cannabis_texture and converted to an image. *)
PC_Texture ==
    /\ patch.pc = "idle"
    /\ \E pattern \in SparklePatterns, f1 \in FieldLevels, f2 \in FieldLevels :
          LET field == TestField(pattern, f1, f2)
              px(r, c) == cannabis_pixel(field[r][c])
          IN  patch' = [PatchIdle EXCEPT !.pc = "image", !.field = field,
                                         !.image = PatchArray(px)]
    /\ UNCHANGED <<call, rng, hashKey, tiler, fallback, tint, db, game>>

(* post_process_texture is given an image that did not come from the
   colorizer above. *)
PP_Image ==
    /\ patch.pc = "idle"
    /\ \E base \in 0..255 :
          patch' = [PatchIdle EXCEPT !.pc = "image", !.image = GivenImage(base)]
    /\ UNCHANGED <<call, rng, hashKey, tiler, fallback, tint, db, game>>

(* Lines 239-250 *)
PP_StageA ==
    /\ patch.pc = "image"
    /\ \E category \in PatchCategories, noise \in NoiseLevels \X NoiseLevels \X NoiseLevels :
          /\ category # "cannabis" => noise = NoNoise
          /\ patch' = [patch EXCEPT
                          !.pc = "staged", !.category = category, !.noise = noise,
                          !.staged = post_process_stage_a(patch.image, category, noise)]
    /\ UNCHANGED <<call, rng, hashKey, tiler, fallback, tint, db, game>>

(* Lines 253-255 *)
PP_Enhance ==
    /\ patch.pc = "staged"
    /\ patch' = [patch EXCEPT !.pc = "done",
                               !.out = apply_pil_enhancements_patch(patch.staged)]
    /\ UNCHANGED <<call, rng, hashKey, tiler, fallback, tint, db, game>>

(***************************************************************************)
(* The colorizers on one pixel.  A field value in [0, 1) is carried in     *)
(* thousandths, a float colour in millionths.  The field values drawn are  *)
(* multiples of 0.05, so that the argument of the sine of line 222 is a    *)
(* whole number of tenths of a radian.                                     *)
(***************************************************************************)
Archetypes == {"cannabis", "skin", "soil", "wood", "generic"}

MaxRow == 63
Rows == 0..MaxRow
Field0Levels == {0, 50, 100, 500, 800, 850, 950}
FieldLevels12 == {0, 500, 950}

(* np.sin at k tenths of a radian, in millionths, for k = 0 .. 89. *)
SinTable ==
    <<
      0, 99833, 198669, 295520, 389418, 479426,
      564642, 644218, 717356, 783327, 841471, 891207,
      932039, 963558, 985450, 997495, 999574, 991665,
      973848, 946300, 909297, 863209, 808496, 745705,
      675463, 598472, 515501, 427380, 334988, 239249,
      141120, 41581, -58374, -157746, -255541, -350783,
      -442520, -529836, -611858, -687766, -756802, -818277,
      -871576, -916166, -951602, -977530, -993691, -999923,
      -996165, -982453, -958924, -925815, -883455, -832267,
      -772764, -705540, -631267, -550686, -464602, -373877,
      -279415, -182163, -83089, 16814, 116549, 215120,
      311541, 404850, 494113, 578440, 656987, 728969,
      793668, 850437, 898708, 938000, 967920, 988168,
      998543, 998941, 989358, 969890, 940731, 902172,
      854599, 798487, 734397, 662969, 584917, 501021
    >>
np_sin(k) == SinTable[k + 1]

(* Lines 175-184 *)
cannabis_texture_at(f) ==
    IF f[1] > 800 THEN <<900000, 900000, 700000>>
    ELSE <<100000 + 200 * f[1], 300000 + 400 * f[2], 100000 + 200 * f[3]>>

(* Lines 189-198 with the pore mask applied at every pixel. *)
skin_texture_at_AllPores(f) ==
    <<((800000 + 150 * f[1]) * 9) \div 10, ((600000 + 150 * f[2]) * 9) \div 10,
      ((400000 + 150 * f[3]) * 9) \div 10>>

(* Lines 189-198 *)
skin_texture_at(f) ==
    LET texture == <<800000 + 150 * f[1], 600000 + 150 * f[2], 400000 + 150 * f[3]>>
    IN  IF f[1] < 100 THEN [ch \in Channels |-> (texture[ch] * 9) \div 10]
        ELSE texture

(* Lines 203-208 *)
soil_texture_at(f) ==
    <<300000 + 300 * f[1], 200000 + 200 * f[2], 100000 + 100 * f[3]>>

(* Lines 213-225: the grain of row y is added to every channel, and the
   sum is clipped to [0, 1]. *)
wood_texture_at(f, y) ==
    LET texture == <<600000 + 200 * f[1], 400000 + 200 * f[2], 200000 + 100 * f[3]>>
        grain   == np_sin(y + f[1] \div 50) \div 10
    IN  [ch \in Channels |-> np_clip(texture[ch] + grain, 0, 1000000)]

(* Lines 229-234 *)
generic_texture_at(f) ==
    [ch \in Channels |-> 500000 + 300 * f[ch]]

(* Lines 151-166 *)
texture_at(archetype, f, y) ==
    CASE archetype = "cannabis" -> cannabis_texture_at(f)
      [] archetype = "skin"     -> skin_texture_at(f)
      [] archetype = "soil"     -> soil_texture_at(f)
      [] archetype = "wood"     -> wood_texture_at(f, y)
      [] archetype = "generic"  -> generic_texture_at(f)

(* Line 169: times 255, then astype(np.uint8), which cuts off the fraction
   and keeps the low 8 bits. *)
texture_uint8(texture) ==
    [ch \in Channels |-> ((texture[ch] * 255) \div 1000000) % 256]

TintIdle ==
    [pc |-> "idle", archetype |-> "", f |-> <<0, 0, 0>>, y |-> 0,
     texture |-> <<0, 0, 0>>, uint8 |-> <<0, 0, 0>>]

(* Lines 149-166: the colorizer of the archetype, at one pixel of row y. *)
CT_Colorize ==
    /\ tint.pc = "idle"
    /\ \E archetype \in Archetypes, f0 \in Field0Levels, f1 \in FieldLevels12,
          f2 \in FieldLevels12, y \in Rows :
          tint' = [TintIdle EXCEPT
                      !.pc = "texture", !.archetype = archetype,
                      !.f = <<f0, f1, f2>>, !.y = y,
                      !.texture = texture_at(archetype, <<f0, f1, f2>>, y)]
    /\ UNCHANGED <<call, rng, hashKey, tiler, fallback, patch, db, game>>

(* Lines 169-170 *)
CT_Scale ==
    /\ tint.pc = "texture"
    /\ tint' = [tint EXCEPT !.pc = "image", !.uint8 = texture_uint8(tint.texture)]
    /\ UNCHANGED <<call, rng, hashKey, tiler, fallback, patch, db, game>>

(***************************************************************************)
(* The game blueprint: /save_game and /load_game over the GameState table. *)
(* A JSON value is a number, a string, an object or null; the values drawn *)
(* for a column are of the column's type, which the database stores and    *)
(* returns unchanged.                                                      *)
(***************************************************************************)
Num(n) == [t |-> "number", n |-> n, s |-> ""]
Text(s) == [t |-> "string", n |-> 0, s |-> s]
Json(s) == [t |-> "object", n |-> 0, s |-> s]
Null == [t |-> "null", n |-> 0, s |-> ""]

FieldNames ==
    {"money", "energy", "level", "day", "environment", "growth_stage",
     "inventory", "environment_settings"}

NoFields == [k \in FieldNames |-> Null]

(* The defaults of the columns of GameState; a JSON column has none. *)
ColumnDefault(k) ==
    CASE k = "money"        -> Num(1000)
      [] k = "energy"       -> Num(100)
      [] k = "level"        -> Num(1)
      [] k = "day"          -> Num(1)
      [] k = "environment"  -> Text("indoor")
      [] k = "growth_stage" -> Text("vegetative")
      [] OTHER              -> Null

(* The "game_state" key of the body: a JSON object with some of the keys,
   or no such key. *)
NoBody == [has |-> FALSE, keys |-> {}, val |-> NoFields]
BodyOf(keys, val) ==
    [has |-> TRUE, keys |-> keys,
     val |-> [k \in FieldNames |-> IF k \in keys THEN val[k] ELSE Null]]

BodyEmpty == BodyOf({}, NoFields)
BodyFull ==
    BodyOf(FieldNames,
           [money |-> Num(250), energy |-> Num(80), level |-> Num(2),
            day |-> Num(5), environment |-> Text("outdoor"),
            growth_stage |-> Text("flowering"), inventory |-> Json("seeds"),
            environment_settings |-> Json("light")])
BodyPartial ==
    BodyOf({"money", "day"}, [money |-> Num(500), day |-> Num(6)])
BodyNulls ==
    BodyOf({"energy", "environment", "inventory"},
           [energy |-> Null, environment |-> Text("greenhouse"),
            inventory |-> Null])
GameBodies == {NoBody, BodyEmpty, BodyFull, BodyPartial, BodyNulls}

(* The "user_id" key of the body: an integer, or no such key. *)
AbsentId == [has |-> FALSE, v |-> 0]
MaxUserId == 2
BodyUserIds == {AbsentId} \cup {Present(u) : u \in 0..MaxUserId}

(* game_state_data.get(key, default) *)
dict_get(body, key, default) ==
    IF key \in body.keys THEN body.val[key] ELSE default

(* not user_id or not game_state_data: None, 0 and the empty object are
   false. *)
MissingArguments(user_id, body) ==
    \/ ~user_id.has
    \/ user_id.v = 0
    \/ ~body.has
    \/ body.keys = {}

(* GameState.query.filter_by(user_id=user_id).first(): the index of the
   first row of the user, 0 for None. *)
query_first(table, user_id) ==
    LET hits == {i \in DOMAIN table : table[i].user_id = user_id}
    IN  IF hits = {} THEN 0
        ELSE CHOOSE i \in hits : \A j \in hits : i <= j

(* The INSERT of a new GameState: a column given None takes its default. *)
inserted_row(user_id, attrs) ==
    [user_id |-> user_id,
     data |-> [k \in FieldNames |->
                  IF attrs[k] = Null THEN ColumnDefault(k) ELSE attrs[k]]]

(* The UPDATE of a loaded GameState: the columns whose attribute no longer
   has the loaded value are written. *)
updated_row(row, loaded, attrs) ==
    [row EXCEPT !.data = [k \in FieldNames |->
                             IF attrs[k] # loaded[k] THEN attrs[k] ELSE @[k]]]

(* Lines 43-58 of game.py *)
load_game(table, user_id) ==
    LET found == query_first(table, user_id)
    IN  IF found # 0
        THEN [status |-> 200, reply |-> table[found].data]
        ELSE [status |-> 404, reply |-> NoFields]

MaxTableRows == 3
Requests == {1, 2}
DbEmpty == <<>>

GameIdle ==
    [pc |-> "idle", kind |-> "", user_id |-> AbsentId, body |-> NoBody,
     found |-> 0, loaded |-> NoFields, attrs |-> NoFields,
     status |-> 0, reply |-> NoFields]

(* The requests the workers are sent: the user ids and the game states of
   the POST bodies, and the user ids of the GET paths. *)
GameUniverse ==
    [user_ids |-> BodyUserIds, bodies |-> GameBodies, loads |-> 0..MaxUserId]
ConcurrentGameUniverse ==
    [user_ids |-> {AbsentId, Present(1)}, bodies |-> {BodyFull, BodyPartial},
     loads |-> {1}]

(* Lines 9-11: worker q takes a POST /save_game. *)
SG_Begin(q, U) ==
    /\ game[q].pc \in {"idle", "done"}
    /\ \E user_id \in U.user_ids, body \in U.bodies :
          game' = [game EXCEPT ![q] =
                      [GameIdle EXCEPT !.pc = "validate", !.kind = "save",
                                       !.user_id = user_id, !.body = body]]
    /\ UNCHANGED <<call, rng, hashKey, tiler, fallback, patch, tint, db>>

(* Lines 13-14 *)
SG_Reject(q) ==
    /\ game[q].pc = "validate"
    /\ MissingArguments(game[q].user_id, game[q].body)
    /\ game' = [game EXCEPT ![q].pc = "done", ![q].status = 400]
    /\ UNCHANGED <<call, rng, hashKey, tiler, fallback, patch, tint, db>>

(* Lines 16-17 *)
SG_Query(q) ==
    /\ game[q].pc = "validate"
    /\ ~MissingArguments(game[q].user_id, game[q].body)
    /\ LET found == query_first(db, game[q].user_id.v)
       IN  game' = [game EXCEPT
                       ![q].pc = IF found # 0 THEN "update" ELSE "insert",
                       ![q].found = found,
                       ![q].loaded = IF found # 0 THEN db[found].data ELSE NoFields]
    /\ UNCHANGED <<call, rng, hashKey, tiler, fallback, patch, tint, db>>

(* The update reading every key with get(key), without the stored value as
   the default. *)
SG_Update_NoDefault(q) ==
    /\ game[q].pc = "update"
    /\ game' = [game EXCEPT
                   ![q].pc = "commit",
                   ![q].attrs = [k \in FieldNames |->
                                    dict_get(game[q].body, k, Null)]]
    /\ UNCHANGED <<call, rng, hashKey, tiler, fallback, patch, tint, db>>

(* Lines 18-25 *)
SG_Update(q) ==
    /\ game[q].pc = "update"
    /\ game' = [game EXCEPT
                   ![q].pc = "commit",
                   ![q].attrs = [k \in FieldNames |->
                                    dict_get(game[q].body, k, game[q].loaded[k])]]
    /\ UNCHANGED <<call, rng, hashKey, tiler, fallback, patch, tint, db>>

(* Lines 27-38 *)
SG_Insert(q) ==
    /\ game[q].pc = "insert"
    /\ game' = [game EXCEPT
                   ![q].pc = "commit",
                   ![q].attrs = [k \in FieldNames |->
                                    dict_get(game[q].body, k, Null)]]
    /\ UNCHANGED <<call, rng, hashKey, tiler, fallback, patch, tint, db>>

(* Lines 40-41 *)
SG_Commit(q) ==
    /\ game[q].pc = "commit"
    /\ IF game[q].found # 0
       THEN db' = [db EXCEPT ![game[q].found] =
                      updated_row(@, game[q].loaded, game[q].attrs)]
       ELSE /\ Len(db) < MaxTableRows
            /\ db' = Append(db, inserted_row(game[q].user_id.v, game[q].attrs))
    /\ game' = [game EXCEPT ![q].pc = "done", ![q].status = 200]
    /\ UNCHANGED <<call, rng, hashKey, tiler, fallback, patch, tint>>

(* Lines 43-58: worker q serves a GET /load_game/<user_id>. *)
LG_Load(q, U) ==
    /\ game[q].pc \in {"idle", "done"}
    /\ \E user_id \in U.loads :
          LET result == load_game(db, user_id)
          IN  game' = [game EXCEPT ![q] =
                          [GameIdle EXCEPT !.pc = "done", !.kind = "load",
                                           !.user_id = Present(user_id),
                                           !.status = result.status,
                                           !.reply = result.reply]]
    /\ UNCHANGED <<call, rng, hashKey, tiler, fallback, patch, tint, db>>

GameStep(q, U) ==
    \/ SG_Begin(q, U)
    \/ SG_Reject(q)
    \/ SG_Query(q)
    \/ SG_Update(q)
    \/ SG_Insert(q)
    \/ SG_Commit(q)
    \/ LG_Load(q, U)

(***************************************************************************)
(* Specifications.                                                         *)
(***************************************************************************)
vars == <<call, rng, hashKey, tiler, fallback, patch, tint, db, game>>

AllPrompts ==
    {PromptBud, PromptSkin, PromptSoil, PromptWood, PromptMetal, PromptTest,
     PromptDefault, PromptAvatarEarth, PromptWoodenBud}

AllCategories ==
    {"cannabis", "avatar", "environment", "materials", "general", "environments"}

(* One call at a time, over every combination of arguments. *)
Universe ==
    [procs       |-> {1},
     prompts     |-> AllPrompts,
     styles      |-> ValidStyles \cup {"sketch"},
     resolutions |-> ValidResolutions,
     categories  |-> AllCategories,
     requests    |->
        [prompt     : {Present(PromptMetal), Present(PromptBud), AbsentText},
         style      : {Present(st) : st \in ValidStyles \cup {"sketch"}}
                          \cup {AbsentName},
         resolution : {JInt(512), JInt(2048), JInt(300), JInt(0), JFloat(2048),
                       JStr(Str512), JStr(Str300), JStr(StrLarge), JNull, JAbsent},
         category   : {Present("materials"), Present("avatar"),
                       Present("environment"), AbsentName}]]

(* Two calls, in one process (two threads) or in two processes. *)
ConcurrentUniverse ==
    [procs       |-> Procs,
     prompts     |-> {PromptTest},
     styles      |-> {"photorealistic"},
     resolutions |-> {512},
     categories  |-> {"cannabis", "general"},
     requests    |->
        [prompt     : {Present(PromptMetal)},
         style      : {AbsentName},
         resolution : {JInt(512), JNull},
         category   : {Present("avatar")}]]

(* Direct calls of the generator with any resolution, as a caller other
   than the endpoint can make them. *)
CoreUniverse ==
    [procs       |-> {1},
     prompts     |-> {PromptTest, PromptMetal},
     styles      |-> {"photorealistic"},
     resolutions |-> {512, 0, -1},
     categories  |-> {"cannabis", "materials", "general"},
     requests    |-> {}]

InitIn(U) ==
    /\ call = [c \in Calls |-> IdleCall]
    /\ rng = [p \in Procs |-> RngInit]
    /\ hashKey \in [Procs -> 0..MaxHashKey]
    /\ \A p \in Procs \ U.procs : hashKey[p] = 0
    /\ tiler = TilerIdle
    /\ fallback = FallbackIdle
    /\ patch = PatchIdle
    /\ tint = TintIdle
    /\ db = DbEmpty
    /\ game = [q \in Requests |-> GameIdle]

Step(c, U) ==
    \/ DirectCall(c, U)
    \/ HttpReceive(c, U)
    \/ GT_EnhancePrompt(c)
    \/ CPT_Seed(c)
    \/ CPT_Texture(c)
    \/ GT_PostProcess(c)
    \/ GT_Return(c)
    \/ GT_Raise(c)
    \/ GT_Except(c)
    \/ HttpRespond(c)
    \/ HttpSaveRaises(c)
    \/ HttpError(c)

Init == InitIn(Universe)
Next == Step(1, Universe)
Spec == Init /\ [][Next]_vars

InitCore == InitIn(CoreUniverse)
NextCore ==
    \/ DirectCall(1, CoreUniverse)
    \/ GT_EnhancePrompt(1)
    \/ CPT_Seed(1)
    \/ CPT_Texture(1)
    \/ GT_PostProcess(1)
    \/ GT_Return(1)
    \/ GT_Raise(1)
    \/ GT_Except(1)
    \/ GT_ExceptRaises(1)
SpecCore == InitCore /\ [][NextCore]_vars

InitConcurrent == InitIn(ConcurrentUniverse)
NextConcurrent == \E c \in Calls : Step(c, ConcurrentUniverse)
SpecConcurrent == InitConcurrent /\ [][NextConcurrent]_vars

(* make_seamless alone. *)
InitSeamless ==
    /\ call = [c \in Calls |-> IdleCall]
    /\ rng = [p \in Procs |-> RngInit]
    /\ hashKey = [p \in Procs |-> 0]
    /\ tiler = TilerIdle
    /\ fallback = FallbackIdle
    /\ patch = PatchIdle
    /\ tint = TintIdle
    /\ db = DbEmpty
    /\ game = [q \in Requests |-> GameIdle]
NextSeamless == MS_Begin \/ MS_Iterate \/ MS_Return
SpecSeamless == InitSeamless /\ [][NextSeamless]_vars

(* create_fallback_texture alone. *)
InitFallback == InitSeamless
NextFallback == FB_Begin \/ FB_Row \/ FB_Return \/ FB_FromarrayRaises
SpecFallback == InitFallback /\ [][NextFallback]_vars

(* The colorizer and post_process_texture on a patch. *)
InitPatch == InitSeamless
NextPatch == PC_Texture \/ PP_Image \/ PP_StageA \/ PP_Enhance
SpecPatch == InitPatch /\ [][NextPatch]_vars

(* The colorizers on one pixel. *)
InitTint == InitSeamless
NextTint == CT_Colorize \/ CT_Scale
SpecTint == InitTint /\ [][NextTint]_vars

(* The game blueprint serving one request at a time. *)
InitGame == InitSeamless
NextGame == GameStep(1, GameUniverse)
SpecGame == InitGame /\ [][NextGame]_vars

(* The game blueprint with two workers. *)
InitGameConcurrent == InitSeamless
NextGameConcurrent == \E q \in Requests : GameStep(q, ConcurrentGameUniverse)
SpecGameConcurrent == InitGameConcurrent /\ [][NextGameConcurrent]_vars

(***************************************************************************)
(* Properties of generate_texture (specification Spec).                    *)
(***************************************************************************)
(* generate_texture has returned in call c. *)
Generated(c) == call[c].result # NoImage

(* Call c has passed the classifier. *)
Classified(c) == call[c].archetype # ""

(* make_seamless was applied to the image. *)
Tiled(image) == \E k \in DOMAIN image.ops : image.ops[k] = "make_seamless"

(* C1: whichever stage of generate_texture raises, for a resolution of 512,
   1024 or 2048, the exception is caught inside generate_texture: the call
   goes on to return, the exception does not reach the caller (the endpoint's
   handler fails at most in its own statements), and the value returned is
   exactly create_fallback_texture(resolution). *)
C1_FallbackOnRaise ==
    \A c \in Calls :
        call[c].raisedAt # "" =>
            /\ call[c].resolution \in ValidResolutions
            /\ call[c].pc \in {"raised", "returned", "done", "handler_except"}
            /\ call[c].pc # "raised" =>
                  /\ call[c].result = create_fallback_texture(call[c].resolution)
                  /\ call[c].handlerError \in {"", "save"}

(* C1, witness: post-processing raised in a call for 2048 pixels, and the
   call returned the fallback image. *)
C1_Witness ==
    \E c \in Calls :
        /\ call[c].raisedAt = "textured"
        /\ call[c].resolution = 2048
        /\ call[c].pc = "returned"
        /\ call[c].result = create_fallback_texture(2048)

(* C2: the image generate_texture returns is resolution pixels wide and
   high, with three 8-bit channels, for every archetype and category, on the
   normal path and on the fallback path. *)
C2_ShapeInvariant ==
    \A c \in Calls :
        Generated(c) =>
            /\ call[c].resolution \in ValidResolutions
            /\ call[c].result.size = <<call[c].resolution, call[c].resolution>>
            /\ call[c].result.mode = "RGB"

(* C2, witness: a tiled wood texture of 2048 by 2048 pixels was returned on
   the normal path. *)
C2_Witness ==
    \E c \in Calls :
        /\ Generated(c)
        /\ call[c].raisedAt = ""
        /\ call[c].archetype = "wood"
        /\ Tiled(call[c].result)
        /\ call[c].result.size = <<2048, 2048>>

(* C5: the classifier lower-cases the text it is given and picks the
   archetype by substring search in priority order: organic-plant for
   "cannabis" or "bud", else skin for "skin" or "avatar", else soil for
   "soil" or "earth", else wood for "wood", else generic; exactly one of the
   five.  The five preset prompts, sent with a category and style that add
   no keyword, classify to organic-plant, skin, soil, wood and generic. *)
C5_ClassifierPriority ==
    \A c \in Calls :
        Classified(c) =>
            LET text  == lower(call[c].enhanced_prompt)
                plant == PyIn(KwCannabis, text) \/ PyIn(KwBud, text)
                skin  == PyIn(KwSkin, text) \/ PyIn(KwAvatar, text)
                soil  == PyIn(KwSoil, text) \/ PyIn(KwEarth, text)
                wood  == PyIn(KwWood, text)
                a     == call[c].archetype
            IN  /\ a \in {"organic-plant", "skin", "soil", "wood", "generic"}
                /\ plant => a = "organic-plant"
                /\ ~plant /\ skin => a = "skin"
                /\ ~plant /\ ~skin /\ soil => a = "soil"
                /\ ~plant /\ ~skin /\ ~soil /\ wood => a = "wood"
                /\ ~plant /\ ~skin /\ ~soil /\ ~wood => a = "generic"
                /\ call[c].category \notin {"cannabis", "avatar"} =>
                      /\ call[c].prompt = PromptBud => a = "organic-plant"
                      /\ call[c].prompt = PromptSkin => a = "skin"
                      /\ call[c].prompt = PromptSoil => a = "soil"
                      /\ call[c].prompt = PromptWood => a = "wood"
                      /\ call[c].prompt = PromptMetal => a = "generic"

(* C5, witness: a text in mixed case that holds keywords of organic-plant
   ("BUD"), skin (from the avatar category text) and wood ("Wooden") was
   classified organic-plant. *)
C5_Witness ==
    \E c \in Calls :
        /\ Classified(c)
        /\ call[c].prompt = PromptWoodenBud
        /\ call[c].category = "avatar"
        /\ PyIn(KwSkin, lower(call[c].enhanced_prompt))
        /\ PyIn(KwWood, lower(call[c].enhanced_prompt))
        /\ call[c].archetype = "organic-plant"

(* C6, as claimed: the category does not influence the archetype; the
   texture is coloured with the archetype of the user prompt, whatever the
   category. *)
C6_CategoryDecorative ==
    \A c \in Calls :
        Classified(c) => call[c].archetype = Archetype(call[c].prompt)

(* C6, amended: the category influences the archetype through the text that
   enhance_prompt appends.  With category "cannabis" every prompt is
   coloured organic-plant; with category "avatar" a prompt is coloured
   organic-plant if it contains "cannabis" or "bud" and skin otherwise; with
   any other category, and any style, the texture is coloured with the
   archetype of the user prompt alone. *)
C6_CategoryThroughPrompt ==
    \A c \in Calls :
        Classified(c) =>
            call[c].archetype =
                IF call[c].category = "cannabis" THEN "organic-plant"
                ELSE IF call[c].category = "avatar"
                     THEN IF Archetype(call[c].prompt) = "organic-plant"
                          THEN "organic-plant" ELSE "skin"
                ELSE Archetype(call[c].prompt)

(* C6, witness: a prompt without any keyword, sent with category "avatar",
   was coloured with the skin archetype. *)
C6_Witness ==
    \E c \in Calls :
        /\ Classified(c)
        /\ call[c].prompt = PromptMetal
        /\ Archetype(call[c].prompt) = "generic"
        /\ call[c].category = "avatar"
        /\ call[c].archetype = "skin"

(* C7, as claimed: on the normal path make_seamless is applied exactly when
   the category is "materials" or "environment", and never for "cannabis",
   "avatar" or "general". *)
C7_SeamlessWhenSurface ==
    \A c \in Calls :
        /\ Generated(c)
        /\ call[c].raisedAt = ""
        /\ call[c].category \in
              {"cannabis", "avatar", "environment", "materials", "general"}
        => (Tiled(call[c].result) <=>
                call[c].category \in {"materials", "environment"})

(* C10, as claimed: the endpoint never rejects a request because of its
   style or resolution.  Every style outside the four is replaced by
   photorealistic and every resolution value outside 512, 1024, 2048,
   non-numeric values included, by 1024, before generation starts; then
   generation proceeds and, unless saving fails, the response is a success. *)
C10_CoercedNeverRejected ==
    \A c \in Calls :
        call[c].kind = "http" =>
            /\ call[c].handlerError # "int"
            /\ call[c].pc # "handler_except" \/ call[c].handlerError = "save"
            /\ call[c].style \in ValidStyles
            /\ call[c].resolution \in ValidResolutions
            /\ get(call[c].data.style, "photorealistic") \notin ValidStyles
                   => call[c].style = "photorealistic"
            /\ ~(/\ ParseResolution(call[c].data.resolution).ok
                 /\ ParseResolution(call[c].data.resolution).value \in ValidResolutions)
                   => call[c].resolution = 1024
            /\ call[c].pc = "done" /\ call[c].handlerError = ""
                   => call[c].response.success

(***************************************************************************)
(* Properties of concurrent and repeated calls (SpecConcurrent).           *)
(***************************************************************************)
(* What generate_texture returns for call c's arguments when the call runs
   alone in its process and no stage raises. *)
Alone(c) ==
    LET enhanced  == enhance_prompt(call[c].prompt, call[c].style, call[c].category)
        seeded    == np_random_seed(SeedOf(enhanced, hashKey[call[c].proc]))
        texture   == create_procedural_texture(enhanced, call[c].resolution, seeded)
        processed == post_process_texture(texture.image, call[c].category, texture.rng)
    IN  IF call[c].category \in SeamlessCategories
        THEN make_seamless(processed.image)
        ELSE processed.image

SameArguments(c, d) ==
    /\ call[c].prompt = call[d].prompt
    /\ call[c].style = call[d].style
    /\ call[c].resolution = call[d].resolution
    /\ call[c].category = call[d].category

(* C3, as claimed: two independent calls of generate_texture with the same
   prompt, style, resolution and category, in the same process or in two
   processes, neither overlapping another call, derive the same seed and the
   same base field and return the same image. *)
C3_Determinism ==
    \A c, d \in Calls :
        /\ Generated(c) /\ Generated(d)
        /\ call[c].raisedAt = "" /\ call[d].raisedAt = ""
        /\ ~call[c].overlapped /\ ~call[d].overlapped
        /\ SameArguments(c, d)
        => /\ call[c].seed = call[d].seed
           /\ call[c].result.field = call[d].result.field
           /\ call[c].result = call[d].result

(* C4, as claimed: a call whose steps interleave with those of another call
   on another thread returns the image it returns when it runs alone. *)
C4_Isolation ==
    \A c \in Calls :
        Generated(c) /\ call[c].raisedAt = "" => call[c].result = Alone(c)

(***************************************************************************)
(* Properties of make_seamless (SpecSeamless).                             *)
(***************************************************************************)
InteriorRows == tiler.blend_size .. (tiler.h - tiler.blend_size - 1)
InteriorColumns == tiler.blend_size .. (tiler.w - tiler.blend_size - 1)

(* C8: with blend = min(height, width) // 8, every pixel whose row is in
   [blend, height - blend) and whose column is in [blend, width - blend)
   keeps the value of the input image, throughout the loop and in the image
   returned. *)
C8_InteriorUntouched ==
    tiler.pc # "idle" =>
        \A r \in InteriorRows, c \in InteriorColumns :
            /\ tiler.img_array[r][c] = tiler.image[r][c]
            /\ tiler.pc = "done" => tiler.out[r][c] = tiler.image[r][c]

(* C8, witness: make_seamless returned with a blend width of 2, changed
   the image, and the image has an interior. *)
C8_Witness ==
    /\ tiler.pc = "done"
    /\ tiler.blend_size = 2
    /\ tiler.out # tiler.image
    /\ InteriorRows # {} /\ InteriorColumns # {}

AbsDiff(p, q) ==
    LET d(ch) == IF p[ch] < q[ch] THEN q[ch] - p[ch] ELSE p[ch] - q[ch]
    IN  d(1) + d(2) + d(3)

(* f[0] + ... + f[n] *)
RECURSIVE SumTo(_, _)
SumTo(f, n) == IF n < 0 THEN 0 ELSE f[n] + SumTo(f, n - 1)

(* The sum over rows, and over columns, of the absolute channel differences
   between the first and the last column, and row. *)
ColumnSeam ==
    SumTo([r \in 0..(tiler.h - 1) |->
              AbsDiff(tiler.out[r][0], tiler.out[r][tiler.w - 1])], tiler.h - 1)
RowSeam ==
    SumTo([c \in 0..(tiler.w - 1) |->
              AbsDiff(tiler.out[0][c], tiler.out[tiler.h - 1][c])], tiler.w - 1)

(* The threshold on the mean absolute difference: an eighth of the range. *)
SeamThreshold == 255 \div 8

(* C9, as claimed: for every input image, after make_seamless the mean
   absolute difference between column 0 and column width-1, and between row
   0 and row height-1, is below a small threshold, however different the
   opposite edges of the input were. *)
C9_TilingContinuity ==
    tiler.pc = "done" /\ tiler.blend_size >= 1 =>
        /\ ColumnSeam < SeamThreshold * 3 * tiler.h
        /\ RowSeam < SeamThreshold * 3 * tiler.w


(***************************************************************************)
(* Properties of the endpoint's response (specification Spec).             *)
(***************************************************************************)
(* The request of call c has been answered. *)
Answered(c) == call[c].kind = "http" /\ call[c].pc = "done"

(* C11: the success field of the response tells whether the handler itself
   raised, not whether the image is the fallback: an answered request is
   answered with success = false exactly when a statement of the handler
   raised (the conversion of the resolution, or saving the image or the
   thumbnail), and then with status 500; a request whose generation raised
   and returned the fallback image, and whose handler did not raise, is
   answered with success = true, status 200 and the request's fields. *)
C11_SuccessFlag ==
    \A c \in Calls :
        Answered(c) =>
            /\ call[c].response.success <=> call[c].handlerError = ""
            /\ ~call[c].response.success =>
                  /\ call[c].response.status = 500
                  /\ call[c].handlerError \in {"int", "save"}
            /\ (call[c].raisedAt # "" /\ call[c].handlerError = "") =>
                  /\ call[c].result = create_fallback_texture(call[c].resolution)
                  /\ call[c].response.success
                  /\ call[c].response.status = 200
                  /\ call[c].response.prompt = call[c].prompt
                  /\ call[c].response.resolution = call[c].resolution

(* C11, witness: a request whose texture stage raised was answered with
   success = true after the fallback image was saved. *)
C11_Witness ==
    \E c \in Calls :
        /\ Answered(c)
        /\ call[c].raisedAt = "seeded"
        /\ call[c].result = create_fallback_texture(call[c].resolution)
        /\ call[c].response.success
        /\ call[c].response.status = 200

(***************************************************************************)
(* Properties of enhance_prompt (specification Spec).                      *)
(***************************************************************************)
(* Call c has passed enhance_prompt. *)
Enhanced(c) == call[c].enhanced_prompt # <<>>

(* The modifier text of a style and of a category: the table's entry, and
   the empty text for a value that is not in the table. *)
style_modifier_text(style) ==
    IF style \in ValidStyles THEN style_modifiers_get(style) ELSE <<>>

RecognisedCategories == {"cannabis", "avatar", "environment", "materials"}

category_modifier_text(category) ==
    IF category \in RecognisedCategories THEN category_modifiers(category) ELSE <<>>

(* C12, as claimed: for every prompt, style and category, recognised or not,
   the enhanced prompt is the prompt, ", ", the style's modifier text, ", ",
   the category's modifier text, and the fixed suffix. *)
C12_EnhancedFormat ==
    \A c \in Calls :
        Enhanced(c) =>
            call[c].enhanced_prompt =
                call[c].prompt \o CommaSpace \o style_modifier_text(call[c].style)
                    \o CommaSpace \o category_modifier_text(call[c].category)
                    \o Suffix

(* C12, amended: the enhanced prompt is the prompt, ", ", the style's
   modifier text (empty for an unrecognised style), then for a recognised
   category ", " and the category's modifier text and for any other category
   nothing at all (no separator), then the fixed suffix. *)
C12_EnhancedFormatByCategory ==
    \A c \in Calls :
        Enhanced(c) =>
            LET head == call[c].prompt \o CommaSpace
                            \o style_modifier_text(call[c].style)
            IN  /\ call[c].category \in RecognisedCategories =>
                      call[c].enhanced_prompt =
                          head \o CommaSpace
                               \o category_modifier_text(call[c].category)
                               \o Suffix
                /\ call[c].category \notin RecognisedCategories =>
                      /\ call[c].enhanced_prompt = head \o Suffix
                      /\ Len(call[c].enhanced_prompt) =
                             Len(call[c].prompt) + Len(CommaSpace)
                                 + Len(style_modifier_text(call[c].style))
                                 + Len(Suffix)

(* C12, witness: a prompt was enhanced for the category "general", which has
   no modifier, and an unrecognised style. *)
C12_Witness ==
    \E c \in Calls :
        /\ Enhanced(c)
        /\ call[c].category = "general"
        /\ call[c].style = "sketch"
        /\ call[c].enhanced_prompt = call[c].prompt \o CommaSpace \o Suffix

(***************************************************************************)
(* Properties of create_fallback_texture (specification SpecFallback).     *)
(***************************************************************************)
(* The integer part of 0.5 * g and of 0.3 * g for g = 255 * i / d. *)
HalfOf(i, d) == (255 * i) \div (2 * d)
ThreeTenthsOf(i, d) == (3 * 255 * i) \div (10 * d)

(* The fallback image was returned, and it has pixels. *)
FallbackReturned == fallback.pc = "done" /\ fallback.resolution >= 1

(* C13, as claimed: every pixel of row i of the fallback image is
   (0.5 * g(i), 128, 0.3 * g(i)) cut to 8 bits with
   g(i) = 255 * i / resolution. *)
C13_FallbackGradient ==
    FallbackReturned =>
        \A i \in DOMAIN fallback.out : \A c \in DOMAIN fallback.out[i] :
            fallback.out[i][c] =
                <<HalfOf(i, fallback.resolution), 128,
                  ThreeTenthsOf(i, fallback.resolution)>>

(* C13, amended: the image has resolution rows of resolution pixels; every
   pixel of row i is (0.5 * g(i), 128, 0.3 * g(i)) cut to 8 bits with
   g(i) = 255 * i / (resolution - 1), so that the last row is (127, 128, 76),
   and g = 0 when the resolution is 1; green is 128 everywhere and a row is
   the same in every column. *)
C13_FallbackGradientEndpoint ==
    FallbackReturned =>
        /\ DOMAIN fallback.out = 0..(fallback.resolution - 1)
        /\ \A i \in DOMAIN fallback.out :
              /\ DOMAIN fallback.out[i] = 0..(fallback.resolution - 1)
              /\ \A c \in DOMAIN fallback.out[i] :
                    /\ fallback.out[i][c] = fallback.out[i][0]
                    /\ fallback.out[i][c][2] = 128
                    /\ fallback.out[i][c] =
                          IF fallback.resolution = 1 THEN <<0, 128, 0>>
                          ELSE <<HalfOf(i, fallback.resolution - 1), 128,
                                 ThreeTenthsOf(i, fallback.resolution - 1)>>
        /\ fallback.resolution >= 2 =>
              fallback.out[fallback.resolution - 1][0] = <<127, 128, 76>>

(* C13, witness: the fallback image of 16 by 16 pixels was returned; its
   row 5 is (42, 128, 25), where g(i) = 255 * i / resolution would give
   (39, 128, 23). *)
C13_Witness ==
    /\ FallbackReturned
    /\ fallback.resolution = 16
    /\ fallback.out[5][3] = <<42, 128, 25>>
    /\ <<HalfOf(5, 16), 128, ThreeTenthsOf(5, 16)>> = <<39, 128, 23>>

(***************************************************************************)
(* Properties of generate_texture for any resolution (SpecCore).           *)
(***************************************************************************)
(* C14, as claimed: whatever resolution reaches generate_texture (zero or
   negative included), no exception reaches the caller, and a call in which
   a stage raised goes on to return an image. *)
C14_AlwaysAnImage ==
    \A c \in Calls :
        /\ call[c].pc # "propagated"
        /\ (call[c].raisedAt # "" /\ call[c].pc # "raised") => Generated(c)

(***************************************************************************)
(* Properties of post_process_texture (specification Spec).                *)
(***************************************************************************)
(* The operation was applied to the image. *)
HasOp(image, name) == \E k \in DOMAIN image.ops : image.ops[k] = name

(* Call c has passed post_process_texture. *)
PostProcessed(c) == HasOp(call[c].image, "Color(1.05)")

(* The corrections of the first stage of post_process_texture that were
   applied to the image: each is named by its first operation. *)
StageACorrections(image) ==
    {name \in {"green*1.2", "GaussianBlur", "contrast_stretch"} : HasOp(image, name)}

(* C15, as claimed: the first stage of post-processing applies exactly one
   correction in every call: the organic-plant correction for category
   "cannabis", the skin correction for category "avatar", and the contrast
   stretch for "environment" and for every other category, "materials" and
   "general" included. *)
C15_ExactlyOneStageA ==
    \A c \in Calls :
        PostProcessed(c) =>
            StageACorrections(call[c].image) =
                IF call[c].category = "cannabis" THEN {"green*1.2"}
                ELSE IF call[c].category = "avatar" THEN {"GaussianBlur"}
                ELSE {"contrast_stretch"}

(* The archetypes the first-stage correction applied to the image belongs
   to: organic-plant for the green boost with noise, skin for the blur with
   variation, and the remaining archetypes when neither was applied. *)
StageAArchetypes(image) ==
    IF HasOp(image, "green*1.2") THEN {"organic-plant"}
    ELSE IF HasOp(image, "GaussianBlur") THEN {"skin"}
    ELSE {"soil", "wood", "generic"}

(* C16, as claimed: in every call the archetype whose colour transform
   colorized the field is the archetype whose first-stage correction the
   post-processor applied, for every combination of prompt and category. *)
C16_OneArchetype ==
    \A c \in Calls :
        PostProcessed(c) => call[c].archetype \in StageAArchetypes(call[c].image)

(***************************************************************************)
(* Properties of the colorizer and of post_process_texture on pixels       *)
(* (specification SpecPatch).                                              *)
(***************************************************************************)
SparkleColour == <<229, 229, 178>>

(* The patch was colorized by create_cannabis_texture from a field with a
   channel-0 value above 0.8, and post-processed for category "cannabis". *)
SparkleCase ==
    /\ patch.pc = "done"
    /\ patch.field # <<>>
    /\ patch.category = "cannabis"
    /\ \E r \in PatchIndex, c \in PatchIndex : patch.field[r][c][1] > 800

(* C17, as claimed: when the field of an organic-plant texture generated
   for category "cannabis" has a channel-0 value above 0.8 at some pixel,
   the returned image has a pixel equal to the sparkle colour
   (229, 229, 178): the value the colorizer wrote is still there after
   post-processing. *)
C17_SparkleSurvives ==
    SparkleCase =>
        \E r \in PatchIndex, c \in PatchIndex : patch.out[r][c] = SparkleColour

(* C18, as claimed: for every 8-bit channel value v the environment
   correction stores clamp((v - 128) * 1.1 + 128, 0, 255) cut to 8 bits,
   with v - 128 negative for v < 128. *)
C18_ContrastStretch ==
    (patch.pc \in {"staged", "done"} /\ patch.category = "environment") =>
        \A r \in PatchIndex, c \in PatchIndex, ch \in Channels :
            patch.staged[r][c][ch] =
                np_clip((patch.image[r][c][ch] - 128) * 11 + 1280, 0, 2550) \div 10

(***************************************************************************)
(* Properties of make_seamless as an algorithm (SpecSeamless).             *)
(***************************************************************************)
(* The row blends for the offsets i, i + 1, ..., blend_size - 1 in order. *)
RECURSIVE RowPass(_, _, _, _)
RowPass(arr, i, h, blend_size) ==
    IF i >= blend_size THEN arr
    ELSE RowPass(blend_bottom(blend_top(arr, i, h, blend_size), i, h, blend_size),
                 i + 1, h, blend_size)

(* The column blends for the offsets i, i + 1, ..., blend_size - 1 in order. *)
RECURSIVE ColumnPass(_, _, _, _)
ColumnPass(arr, i, w, blend_size) ==
    IF i >= blend_size THEN arr
    ELSE ColumnPass(blend_right(blend_left(arr, i, w, blend_size), i, w, blend_size),
                    i + 1, w, blend_size)

(* Two sequential passes: all the row blends, then all the column blends. *)
TwoPasses(image, h, w, blend_size) ==
    ColumnPass(RowPass(image, 0, h, blend_size), 0, w, blend_size)

(* C19, as claimed: for every image, what make_seamless returns is what two
   sequential passes return, the top and bottom blends for every offset
   first and the left and right blends for every offset after them, at
   every pixel, the corner bands included. *)
C19_TwoSequentialPasses ==
    tiler.pc = "done" =>
        tiler.out = TwoPasses(tiler.image, tiler.h, tiler.w, tiler.blend_size)

(* (1 - alpha) * a + alpha * b for alpha = i / blend, cut to 8 bits, per
   channel. *)
Weighted(a, b, i, blend) ==
    [ch \in Channels |-> ((blend - i) * a[ch] + i * b[ch]) \div blend]

(* The array after the four overwrites of offset i, each one reading the
   array the one before it left. *)
AfterOffset(A, i, h, w, blend) ==
    LET T == [r \in 0..(h - 1) |-> [c \in 0..(w - 1) |->
                IF r = i
                THEN Weighted(A[h - blend + i][c], A[i][c], i, blend)
                ELSE A[r][c]]]
        B == [r \in 0..(h - 1) |-> [c \in 0..(w - 1) |->
                IF r = h - 1 - i
                THEN Weighted(T[blend - 1 - i][c], T[h - 1 - i][c], i, blend)
                ELSE T[r][c]]]
        L == [r \in 0..(h - 1) |-> [c \in 0..(w - 1) |->
                IF c = i
                THEN Weighted(B[r][w - blend + i], B[r][i], i, blend)
                ELSE B[r][c]]]
    IN  [r \in 0..(h - 1) |-> [c \in 0..(w - 1) |->
                IF c = w - 1 - i
                THEN Weighted(L[r][blend - 1 - i], L[r][w - 1 - i], i, blend)
                ELSE L[r][c]]]

(* C20: make_seamless uses blend = min(height, width) div 8 and takes the
   offsets 0, 1, ..., blend - 1 in increasing order; at offset i, with
   alpha = i / blend, it overwrites top row i from row height - blend + i,
   bottom row height - 1 - i from row blend - 1 - i, left column i from
   column width - blend + i and right column width - 1 - i from column
   blend - 1 - i, each as (1 - alpha) * source + alpha * target read from
   the working array at the moment of the write; every stored value is
   within 0..255, and the array after the last offset is what is returned. *)
C20_SeamlessFormula ==
    [][/\ tiler'.pc # "idle" =>
             /\ tiler'.blend_size = Min(tiler'.h, tiler'.w) \div 8
             /\ tiler'.i \in 0..tiler'.blend_size
             /\ \A r \in 0..(tiler'.h - 1), c \in 0..(tiler'.w - 1), ch \in Channels :
                    tiler'.img_array[r][c][ch] \in 0..255
       /\ (tiler.pc = "idle" /\ tiler'.pc = "loop") =>
             tiler'.i = 0 /\ tiler'.img_array = tiler'.image
       /\ (tiler.pc = "loop" /\ tiler'.pc = "loop") =>
             /\ tiler'.i = tiler.i + 1
             /\ tiler'.img_array =
                    AfterOffset(tiler.img_array, tiler.i, tiler.h, tiler.w,
                                tiler.blend_size)
       /\ (tiler.pc = "loop" /\ tiler'.pc = "done") =>
             tiler.i = tiler.blend_size /\ tiler'.out = tiler.img_array
      ]_vars

(* C20, witness: make_seamless returned after four offsets, and the corner
   pixel of row 1 and column 1, which is written by the top and by the left
   overwrite of offset 1, is no longer the input's. *)
C20_Witness ==
    /\ tiler.pc = "done"
    /\ tiler.blend_size = 4
    /\ tiler.i = 4
    /\ tiler.out[1][1] # tiler.image[1][1]

(* The band of a channel in the colorizer table, in millionths: the values
   lo + width * f for f in [0, 1). *)
Band(archetype, ch) ==
    CASE archetype = "cannabis" ->
            <<[lo |-> 100000, hi |-> 300000], [lo |-> 300000, hi |-> 700000],
              [lo |-> 100000, hi |-> 300000]>>[ch]
      [] archetype = "skin" ->
            <<[lo |-> 800000, hi |-> 950000], [lo |-> 600000, hi |-> 750000],
              [lo |-> 400000, hi |-> 550000]>>[ch]
      [] archetype = "soil" ->
            <<[lo |-> 300000, hi |-> 600000], [lo |-> 200000, hi |-> 400000],
              [lo |-> 100000, hi |-> 200000]>>[ch]
      [] archetype = "wood" ->
            <<[lo |-> 600000, hi |-> 800000], [lo |-> 400000, hi |-> 600000],
              [lo |-> 200000, hi |-> 300000]>>[ch]
      [] archetype = "generic" ->
            [lo |-> 500000, hi |-> 800000]

InBand(v, band) == band.lo <= v /\ v < band.hi

SparkleValue == <<900000, 900000, 700000>>

(* Every channel is in [0, 1], and the 8-bit value is the float value
   times 255 with the fraction cut off, not a value reduced modulo 256. *)
InUnitRange ==
    /\ tint.pc # "idle" =>
          \A ch \in Channels : 0 <= tint.texture[ch] /\ tint.texture[ch] <= 1000000
    /\ tint.pc = "image" =>
          \A ch \in Channels :
              /\ tint.uint8[ch] = (tint.texture[ch] * 255) \div 1000000
              /\ tint.uint8[ch] \in 0..255

(* C21, as stated: every channel the colorizer produces lies in [0, 1]
   before it is scaled to 8 bits, so the conversion never wraps, and every
   channel is inside the archetype's band of the table, or the pixel is the
   sparkle overlay value. *)
C21_ColorizerBands ==
    /\ InUnitRange
    /\ tint.pc # "idle" =>
          \/ tint.archetype = "cannabis" /\ tint.texture = SparkleValue
          \/ \A ch \in Channels :
                 InBand(tint.texture[ch], Band(tint.archetype, ch))

(* C21, amended: every channel the colorizer produces lies in [0, 1] and
   the conversion to 8 bits never wraps.  An organic-plant pixel is the
   sparkle value or has every channel in its band; a soil or generic pixel
   has every channel in its band; a skin pixel has every channel in its
   band, or, where field channel 0 is below 0.1, in the band times 0.9; a
   wood pixel has every channel within 0.1 of its band. *)
C21_ColorizerRange ==
    /\ InUnitRange
    /\ tint.pc # "idle" =>
          \A ch \in Channels :
              LET v    == tint.texture[ch]
                  band == Band(tint.archetype, ch)
              IN  CASE tint.archetype = "cannabis" ->
                          IF tint.f[1] > 800 THEN v = SparkleValue[ch]
                          ELSE InBand(v, band)
                    [] tint.archetype = "skin" ->
                          IF tint.f[1] < 100
                          THEN InBand(10 * v, [lo |-> 9 * band.lo, hi |-> 9 * band.hi])
                          ELSE InBand(v, band)
                    [] tint.archetype = "wood" ->
                          InBand(v, [lo |-> band.lo - 100000, hi |-> band.hi + 100000])
                    [] OTHER -> InBand(v, band)

(* C21, witness: a skin pixel with a pore has been colorized and scaled to
   8 bits, and its red channel is below the skin band. *)
C21_Witness ==
    /\ tint.pc = "image"
    /\ tint.archetype = "skin"
    /\ tint.f[1] < 100
    /\ tint.texture[1] < 800000
    /\ tint.uint8[1] < 204

(* The stage of the pipeline a step belongs to. *)
StageOf(step) ==
    CASE step = "keyword dispatch" -> "classifier"
      [] step \in {"np.random.seed", "np.random.rand"} -> "base field generator"
      [] step \in {"create_cannabis_texture", "create_skin_texture",
                   "create_soil_texture", "create_wood_texture",
                   "create_generic_texture", "*255"} -> "colorizer"
      [] step \in {"green*1.2", "+noise", "GaussianBlur", "*variation",
                   "contrast_stretch"} -> "stage A"
      [] step = "Sharpness(1.2)" -> "sharpness"
      [] step = "Contrast(1.1)" -> "contrast"
      [] step = "Color(1.05)" -> "colour"
      [] step = "make_seamless" -> "seamless tiler"
      [] step = "create_fallback_texture" -> "fallback generator"

(* The stages in the order the claim gives them, and in the order with the
   base field generator before the classifier. *)
ClaimedOrder ==
    <<"classifier", "base field generator", "colorizer", "stage A",
      "sharpness", "contrast", "colour", "seamless tiler", "fallback generator">>
GeneratorFirstOrder ==
    <<"base field generator", "classifier", "colorizer", "stage A",
      "sharpness", "contrast", "colour", "seamless tiler", "fallback generator">>

Position(order, stage) == CHOOSE k \in DOMAIN order : order[k] = stage

(* The steps of the log are distinct and their stages follow the order. *)
RunsInOrder(log, order) ==
    \A i, j \in DOMAIN log :
        i < j => /\ log[i] # log[j]
                 /\ Position(order, StageOf(log[i])) <= Position(order, StageOf(log[j]))

(* The fallback generator runs only after a stage has failed, and nothing
   runs after it. *)
FallbackTerminal(c) ==
    \A i \in DOMAIN call[c].stages :
        call[c].stages[i] = "create_fallback_texture" =>
            /\ call[c].raisedAt # ""
            /\ i = Len(call[c].stages)

(* A call that returned without a failure ran every stage: the generator,
   the classifier, a colorizer, the three enhancements, and the tiler
   exactly when the category is one of those that are tiled. *)
RanEveryStage(c) ==
    (call[c].pc = "returned" /\ call[c].raisedAt = "") =>
        LET ran == {StageOf(call[c].stages[i]) : i \in DOMAIN call[c].stages}
        IN  /\ {"base field generator", "classifier", "colorizer", "sharpness",
                "contrast", "colour"} \subseteq ran
            /\ "seamless tiler" \in ran <=> call[c].category \in {"materials", "environments"}
            /\ "fallback generator" \notin ran

(* C22, as stated: in every generate_texture call the stages run in the
   order classifier, base field generator, colorizer, Stage A, sharpness,
   contrast, colour, seamless tiler; no step runs twice; the fallback
   generator runs only after a failure and nothing runs after it. *)
C22_StageOrder ==
    \A c \in Calls :
        /\ RunsInOrder(call[c].stages, ClaimedOrder)
        /\ FallbackTerminal(c)

(* C22, amended: in every generate_texture call the stages run in the
   order base field generator, classifier, colorizer, Stage A (for the
   categories that have one), sharpness, contrast, colour, seamless tiler
   (for the categories that are tiled); no step runs twice; the fallback
   generator runs only after a failure and nothing runs after it; a call
   that returns without a failure has run every one of these stages. *)
C22_StageOrderGeneratorFirst ==
    \A c \in Calls :
        /\ RunsInOrder(call[c].stages, GeneratorFirstOrder)
        /\ FallbackTerminal(c)
        /\ RanEveryStage(c)

(* C22, witness: a call for a tiled category returned without a failure,
   the tiler being the last of its steps and the colour enhancement the
   one before it. *)
C22_Witness ==
    \E c \in Calls :
        /\ call[c].pc = "returned"
        /\ call[c].raisedAt = ""
        /\ call[c].category = "materials"
        /\ Len(call[c].stages) = 9
        /\ call[c].stages[9] = "make_seamless"
        /\ call[c].stages[8] = "Color(1.05)"
        /\ call[c].stages[3] = "keyword dispatch"

(* Row r of the output holds row s of the input at the interior columns,
   and column c of the output holds column d of the input at the interior
   rows. *)
RowHolds(r, s) ==
    \A c \in InteriorColumns : tiler.out[r][c] = tiler.image[s][c]
ColumnHolds(c, d) ==
    \A r \in InteriorRows : tiler.out[r][c] = tiler.image[r][d]

(* C23, as stated: when make_seamless returns with blend >= 1, at the
   columns in [blend, width - blend) row 0 holds the input's row
   height - blend and row height - 1 holds the input's row blend - 1, and
   at the rows in [blend, height - blend) column 0 holds the input's column
   width - blend and column width - 1 holds the input's column blend - 1. *)
C23_EdgesReplaced ==
    (tiler.pc = "done" /\ tiler.blend_size >= 1) =>
        /\ RowHolds(0, tiler.h - tiler.blend_size)
        /\ RowHolds(tiler.h - 1, tiler.blend_size - 1)
        /\ ColumnHolds(0, tiler.w - tiler.blend_size)
        /\ ColumnHolds(tiler.w - 1, tiler.blend_size - 1)

(* C23, amended: when make_seamless returns with blend >= 2 the four edges
   are replaced as stated; when it returns with blend = 1, row 0 holds the
   input's row height - 1 and column 0 holds the input's column width - 1,
   while row height - 1 and column width - 1 keep what the input had there,
   because they are copied back from the row and the column just
   overwritten. *)
C23_EdgesReplacedWideBand ==
    /\ (tiler.pc = "done" /\ tiler.blend_size >= 2) =>
          /\ RowHolds(0, tiler.h - tiler.blend_size)
          /\ RowHolds(tiler.h - 1, tiler.blend_size - 1)
          /\ ColumnHolds(0, tiler.w - tiler.blend_size)
          /\ ColumnHolds(tiler.w - 1, tiler.blend_size - 1)
    /\ (tiler.pc = "done" /\ tiler.blend_size = 1) =>
          /\ RowHolds(0, tiler.h - 1)
          /\ RowHolds(tiler.h - 1, tiler.h - 1)
          /\ ColumnHolds(0, tiler.w - 1)
          /\ ColumnHolds(tiler.w - 1, tiler.w - 1)

(* C23, witness: make_seamless returned with a blend width of 4 and, at an
   interior column, the bottom row differs from what the input had there
   and from the top row of the output. *)
C23_Witness ==
    /\ tiler.pc = "done"
    /\ tiler.blend_size = 4
    /\ \E c \in InteriorColumns :
          /\ tiler.out[tiler.h - 1][c] # tiler.image[tiler.h - 1][c]
          /\ tiler.out[tiler.h - 1][c] # tiler.out[0][c]
          /\ tiler.out[tiler.h - 1][c] = tiler.image[3][c]

(* The number of rows and of columns of a pixel array. *)
HeightOf(arr) == Cardinality(DOMAIN arr)
WidthOf(arr) == Cardinality(DOMAIN arr[0])

(* C24: make_seamless never modifies the image it is given: from the call
   to the return the image holds the same pixels; the image returned has
   the height and the width of the image given; and when
   min(height, width) < 8 the blend width is 0, the working array stays
   equal to the image given and the image returned equals it pixel for
   pixel. *)
C24_InputKept ==
    [][/\ tiler.pc # "idle" => tiler'.image = tiler.image
       /\ tiler'.pc = "done" =>
             /\ HeightOf(tiler'.out) = HeightOf(tiler'.image)
             /\ WidthOf(tiler'.out) = WidthOf(tiler'.image)
             /\ HeightOf(tiler'.out) = tiler'.h
             /\ WidthOf(tiler'.out) = tiler'.w
       /\ (tiler'.pc # "idle" /\ Min(tiler'.h, tiler'.w) < 8) =>
             /\ tiler'.blend_size = 0
             /\ tiler'.img_array = tiler'.image
             /\ tiler'.pc = "done" => tiler'.out = tiler'.image
      ]_vars

(* C24, witness: make_seamless returned for an image of 5 rows and 32
   columns, with a blend width of 0 and the pixels of the input. *)
C24_Witness ==
    /\ tiler.pc = "done"
    /\ tiler.h = 5 /\ tiler.w = 32
    /\ tiler.blend_size = 0
    /\ tiler.i = 0
    /\ tiler.out = tiler.image

(* The rows of the table that belong to a user. *)
RowsOf(user_id) == {i \in DOMAIN db : db[i].user_id = user_id}

(* C25: whatever the sequence and the interleaving of /save_game requests,
   the table holds at most one GameState row for each user_id. *)
C25_OneRowPerUser ==
    \A user_id \in 0..MaxUserId : Cardinality(RowsOf(user_id)) <= 1

(* The fields /load_game returns for the user after a save of the body,
   given what it returned before: the value of the body for a key the body
   has, the value returned before for a key it has not. *)
Merged(body, before) ==
    [k \in FieldNames |-> IF k \in body.keys THEN body.val[k] ELSE before[k]]

(* C26: when a /save_game for a user who already has a saved state
   succeeds, /load_game for that user returns, for each of the eight
   fields, the value of the request where the request has the field and the
   value it returned before the save where it has not; a /save_game whose
   user_id or game_state is missing or empty is answered 400 and leaves the
   table as it was; and /load_game is answered 404 exactly when the user
   has no row, and otherwise 200 with the fields of the user's row. *)
C26_SaveLoadRoundTrip ==
    [][/\ (game[1].pc = "commit" /\ game'[1].pc = "done"
           /\ RowsOf(game[1].user_id.v) # {}) =>
             LET before == load_game(db, game[1].user_id.v)
                 after  == load_game(db', game[1].user_id.v)
             IN  /\ game'[1].status = 200
                 /\ before.status = 200
                 /\ after.status = 200
                 /\ after.reply = Merged(game[1].body, before.reply)
       /\ (game[1].pc = "validate"
           /\ MissingArguments(game[1].user_id, game[1].body)) =>
             /\ game'[1].status = 400
             /\ game'[1].pc = "done"
             /\ db' = db
       /\ game'[1].status = 400 =>
             MissingArguments(game'[1].user_id, game'[1].body)
       /\ (game'[1].pc = "done" /\ game'[1].kind = "load") =>
             /\ db' = db
             /\ game'[1].status = 404 <=> RowsOf(game'[1].user_id.v) = {}
             /\ game'[1].status # 404 =>
                   /\ game'[1].status = 200
                   /\ \E i \in RowsOf(game'[1].user_id.v) :
                          game'[1].reply = db'[i].data
      ]_vars

(* C26, witness: a save with only money and day succeeded for a user who
   had saved a full state before; the user's row has the money and the day
   of the request and still the energy and the environment of the earlier
   save. *)
C26_Witness ==
    /\ game[1].pc = "done"
    /\ game[1].kind = "save"
    /\ game[1].status = 200
    /\ game[1].found # 0
    /\ game[1].body = BodyPartial
    /\ LET row == db[game[1].found].data
       IN  /\ row["money"] = Num(500)
           /\ row["day"] = Num(6)
           /\ row["energy"] = Num(80)
           /\ row["environment"] = Text("outdoor")

====
